---- MODULE Spec2Model ----
(***************************************************************************)
(* State-machine model of the auto-reorder service (src/src/routes/       *)
(* reorder.py): the rule registry, the trigger evaluator, the order        *)
(* factory and the approval workflow.                                      *)
(*                                                                         *)
(* Conventions.                                                            *)
(*   - A Python dict key that may be absent, or a value that may be None,  *)
(*     is a sequence of length 0 (absent / None) or 1 (the value).         *)
(*   - A JSON scalar that the code compares with numbers is a record       *)
(*     [num |-> BOOLEAN, n |-> Int]; num = FALSE stands for a JSON string, *)
(*     on which Python's <= and >= raise TypeError.                        *)
(*   - Dicts keep insertion order, so reorder_rules and pending_orders are *)
(*     sequences of records with pairwise different keys.                  *)
(*   - A formatted string is the tuple of its template and the values      *)
(*     interpolated into it.                                               *)
(*   - The wall clock is the tick counter now; a handler reads it when it  *)
(*     runs, and two reads may return the same tick.                       *)
(***************************************************************************)
EXTENDS Integers, Sequences, FiniteSets, TLC

\* ------------------------------------------------------------- bounds
MaxTime == 1      \* the clock runs from tick 0 to tick MaxTime
MaxCalls == 3     \* a run serves at most MaxCalls requests

\* The resolution of the clock: one day is MaxTime ticks, so a run covers
\* day 0 and the first tick of day 1.
TicksPerDay == MaxTime

\* ------------------------------------------------- program constants
DefaultApprovalThreshold == 1000
DefaultLeadTimeDays == 7
DefaultTriggerValue == 0
DefaultUnitCost == 0

\* ------------------------------------------------------------ helpers
None == <<>>
Some(v) == <<v>>

\* dict.get(key, default) on an optional value.
Get(opt, default) == IF opt = None THEN default ELSE opt[1]

NUM(n) == [num |-> TRUE, n |-> n]
STR == [num |-> FALSE, n |-> 0]

RECURSIVE SumSeq(_)
SumSeq(s) == IF s = <<>> THEN 0 ELSE s[1] + SumSeq(Tail(s))

\* Index of the entry with the given key in an insertion-ordered dict, 0 if none.
IndexOf(d, keyField, key) ==
  IF \E i \in DOMAIN d : d[i][keyField] = key
  THEN CHOOSE i \in DOMAIN d : d[i][keyField] = key
  ELSE 0

\* d[key] = value on an insertion-ordered dict: an existing key keeps its place.
Put(d, keyField, value) ==
  LET i == IndexOf(d, keyField, value[keyField]) IN
  IF i = 0 THEN Append(d, value) ELSE [d EXCEPT ![i] = value]

\* ----------------------------------------------------------- the clock
\* datetime.isoformat() / datetime.fromisoformat(): text of a time and back.
isoformat(t) == <<"iso", t>>
fromisoformat(s) == s[2]

\* (a - b).days for a >= b: whole days of a timedelta.
DaysBetween(a, b) == (a - b) \div TicksPerDay

\* The months a run of the model starts in.
StartMonths == {10}

NextMonth(m) == IF m = 12 THEN 1 ELSE m + 1

\* datetime.utcnow().month at tick t, for a run that started on the last day
\* of month m0.
MonthAt(m0, t) == IF t \div TicksPerDay = 0 THEN m0 ELSE NextMonth(m0)

VARIABLES
  now,             \* the wall clock, in ticks
  epochMonth,      \* the calendar month in which the run started
  reorder_rules,   \* reorder.py:10, insertion-ordered dict rule_id -> rule
  pending_orders,  \* reorder.py:12, insertion-ordered dict order_id -> order
  events,          \* payloads built by trigger_reorder_webhook, in order
  nextObj,         \* number of order dicts allocated so far
  last,            \* the last call and its HTTP response
  calls,           \* number of calls served so far
  historical_data, \* forecasting.py:12, product_id -> list of records
  forecast_data,   \* forecasting.py:11, insertion-ordered dict product_id -> forecast
  market_trends,   \* forecasting.py:13, insertion-ordered dict trend_id -> trend
  forecast_events, \* payloads built by trigger_forecast_webhook, in order
  flast,           \* the last forecasting call and its HTTP response
  pc,              \* where each concurrent check-triggers request stands
  frame            \* the local variables of each concurrent request

\* The state of the reorder service, of the forecasting service, and of the
\* requests in flight when check-triggers requests run in parallel threads.
rvars == <<now, epochMonth, reorder_rules, pending_orders, events, nextObj, last, calls>>
fvars == <<historical_data, forecast_data, market_trends, forecast_events, flast>>
cvars == <<pc, frame>>
vars == <<rvars, fvars, cvars>>


\* ------------------------------------------------------ request inputs
Products == {"p1", "p2"}

\* The JSON body of POST /rules: every key may be absent.
Req(p, ty, tv, q, u, ar, at, sa) ==
  [product_id |-> p, trigger_type |-> ty, trigger_value |-> tv,
   reorder_quantity |-> q, unit_cost |-> u, approval_required |-> ar,
   approval_threshold |-> at, seasonal_adjustment |-> sa]

RuleRequests ==
  { Req(Some("p1"), Some("threshold"), Some(NUM(10)), Some(200), Some(10), Some(FALSE), Some(1000), None),
    Req(Some("p1"), Some("threshold"), Some(STR), Some(5), None, None, None, None),
    Req(Some("p1"), Some("threshold"), None, Some(5), Some(10), None, None, None),
    Req(Some("p2"), Some("time_based"), Some(NUM(1)), Some(5), None, Some(TRUE), None, Some(TRUE)),
    Req(Some("p2"), Some("demand_forecast"), None, Some(5), Some(10), None, Some(40), Some(TRUE)),
    Req(Some("p2"), Some("threshold"), Some(NUM(10)), None, None, None, None, None) }

\* The JSON body of PUT /rules/<rule_id>: the updatable keys it carries.
UpdateRequests ==
  { [status |-> Some("inactive"), trigger_value |-> None],
    [status |-> Some("active"), trigger_value |-> Some(NUM(2))] }

\* ------------------------------------------------------- rule registry
\* The rule dict built by create_reorder_rule. It has no unit_cost key: the
\* handler copies a fixed list of keys and unit_cost is not among them.
NewRule(data, t) ==
  [rule_id |-> <<"rule", t>>,
   product_id |-> data.product_id[1],
   trigger_type |-> data.trigger_type[1],
   trigger_value |-> Get(data.trigger_value, NUM(DefaultTriggerValue)),
   reorder_quantity |-> data.reorder_quantity[1],
   unit_cost |-> None,
   approval_required |-> Some(Get(data.approval_required, FALSE)),
   approval_threshold |-> Some(Get(data.approval_threshold, DefaultApprovalThreshold)),
   lead_time_days |-> Some(DefaultLeadTimeDays),
   seasonal_adjustment |-> Some(Get(data.seasonal_adjustment, FALSE)),
   status |-> "active",
   created_date |-> isoformat(t),
   last_triggered |-> None,
   total_triggers |-> 0,
   last_updated |-> None]

\* POST /rules: [rules, code].
create_reorder_rule(rules, data, t) ==
  IF \/ data.product_id = None
     \/ data.trigger_type = None
     \/ data.reorder_quantity = None
  THEN [rules |-> rules, code |-> 400]
  ELSE [rules |-> Put(rules, "rule_id", NewRule(data, t)), code |-> 201]

\* PUT /rules/<rule_id>: [rules, code].
update_reorder_rule(rules, rule_id, data, t) ==
  LET i == IndexOf(rules, "rule_id", rule_id) IN
  IF i = 0 THEN [rules |-> rules, code |-> 404]
  ELSE [rules |->
          [rules EXCEPT ![i] =
             [@ EXCEPT !.status = Get(data.status, @),
                       !.trigger_value = Get(data.trigger_value, @),
                       !.last_updated = Some(isoformat(t))]],
        code |-> 200]

\* ------------------------------------------------------- order factory
\* A reason text: the f-string template and the values formatted into it.
Reason(text, nums) == [text |-> text, nums |-> nums]

\* The texts of the model that contain "stockout" once lower-cased.
StockoutTexts == {"Stockout risk"}

\* 'stockout' in trigger_reason.lower()
MentionsStockout(reason) == reason.text \in StockoutTexts

\* order['status'] = 'sent_to_supplier'
SetStatusSent(order) == [order EXCEPT !.status = "sent_to_supplier"]

\* order['sent_date'] = datetime.utcnow().isoformat(), the clock reading t
SetSentDate(order, t) == [order EXCEPT !.sent_date = Some(isoformat(t))]

\* send_order_to_supplier(order), served without another request in between:
\* both writes, the second with the clock reading of the call.
send_order_to_supplier(order, t) == SetSentDate(SetStatusSent(order), t)

\* The payload of the reorder_generated webhook built from an order.
trigger_reorder_webhook(order) ==
  [trigger |-> "reorder_generated",
   obj |-> order.obj,
   order_id |-> order.order_id,
   product_id |-> order.product_id,
   quantity |-> order.quantity,
   estimated_cost |-> order.estimated_cost,
   status |-> order.status,
   timestamp |-> order.created_date]

\* estimated_cost = quantity * rule.get('unit_cost', 0)
EstimatedCost(rule, quantity) == quantity * Get(rule.unit_cost, DefaultUnitCost)

\* RequiresApproval with the threshold test written >= instead of >.
RequiresApproval_AtThreshold(rule, quantity) ==
  \/ Get(rule.approval_required, FALSE)
  \/ EstimatedCost(rule, quantity) >= Get(rule.approval_threshold, DefaultApprovalThreshold)

\* rule.get('approval_required', False) or estimated_cost > rule.get('approval_threshold', 1000)
RequiresApproval(rule, quantity) ==
  \/ Get(rule.approval_required, FALSE)
  \/ EstimatedCost(rule, quantity) > Get(rule.approval_threshold, DefaultApprovalThreshold)

\* The order dict as create_reorder builds it (a fresh object, number obj).
NewOrder(rule, quantity, trigger_reason, t, obj) ==
  [obj |-> obj,
   order_id |-> <<"order", t>>,
   rule_id |-> rule.rule_id,
   product_id |-> rule.product_id,
   quantity |-> quantity,
   estimated_cost |-> EstimatedCost(rule, quantity),
   trigger_reason |-> trigger_reason,
   status |-> IF RequiresApproval(rule, quantity) THEN "pending_approval" ELSE "approved",
   created_date |-> isoformat(t),
   expected_delivery |-> isoformat(t + Get(rule.lead_time_days, DefaultLeadTimeDays) * TicksPerDay),
   priority |-> IF MentionsStockout(trigger_reason) THEN "high" ELSE "medium",
   approved_by |-> None, approved_date |-> None, approval_notes |-> None,
   rejected_by |-> None, rejected_date |-> None, rejection_reason |-> None,
   sent_date |-> None]

\* create_reorder that announces every order it creates, sent or not.
create_reorder_AnnouncesAll(S, rule, quantity, trigger_reason, t) ==
  LET order == NewOrder(rule, quantity, trigger_reason, t, S.nextObj + 1)
      direct == ~RequiresApproval(rule, quantity)
      final == IF direct THEN send_order_to_supplier(order, t) ELSE order
  IN [orders |-> Put(S.orders, "order_id", final),
      events |-> Append(S.events, trigger_reorder_webhook(final)),
      nextObj |-> S.nextObj + 1,
      order |-> final]

\* create_reorder on the stores S = [orders, events, nextObj], read at clock t:
\* the stores afterwards and the order returned. The order is stored under its
\* timestamp-derived id and, when no approval is required, sent and announced.
create_reorder(S, rule, quantity, trigger_reason, t) ==
  LET order == NewOrder(rule, quantity, trigger_reason, t, S.nextObj + 1)
      direct == ~RequiresApproval(rule, quantity)
      final == IF direct THEN send_order_to_supplier(order, t) ELSE order
  IN [orders |-> Put(S.orders, "order_id", final),
      events |-> IF direct THEN Append(S.events, trigger_reorder_webhook(final))
                 ELSE S.events,
      nextObj |-> S.nextObj + 1,
      order |-> final]

\* ---------------------------------------------------- approval workflow
\* What request.get_json() gives the approve / reject handlers.
\*   kind "json": a JSON object whose keys by and note may be absent;
\*   kind "null": no object at all (the JSON value null): get_json returns None.
Body(kind, by, note) == [kind |-> kind, by |-> by, note |-> note]

Bodies ==
  { Body("json", Some("alice"), None),
    Body("json", None, None),
    Body("null", None, None) }

\* approve_order with a status test that only turns away orders already
\* approved or sent, so that a rejected order can still be approved.
approve_order_Reopens(S, order_id, data, t) ==
  LET i == IndexOf(S.orders, "order_id", order_id) IN
  IF i = 0 THEN [orders |-> S.orders, events |-> S.events, code |-> 404]
  ELSE IF S.orders[i].status \in {"approved", "sent_to_supplier"}
  THEN [orders |-> S.orders, events |-> S.events, code |-> 400]
  ELSE
    LET o1 == [S.orders[i] EXCEPT !.status = "approved"] IN
    IF data.kind = "null"
    THEN [orders |-> [S.orders EXCEPT ![i] = o1], events |-> S.events, code |-> 500]
    ELSE
      LET o2 == [o1 EXCEPT !.approved_by = Some(Get(data.by, "system")),
                           !.approved_date = Some(isoformat(t)),
                           !.approval_notes = Some(Get(data.note, ""))]
          o3 == send_order_to_supplier(o2, t)
      IN [orders |-> [S.orders EXCEPT ![i] = o3],
          events |-> Append(S.events, trigger_reorder_webhook(o3)),
          code |-> 200]

\* POST /orders/<order_id>/approve on S = [orders, events, nextObj]:
\* [orders, events, code]. The status is written before the body is read.
approve_order(S, order_id, data, t) ==
  LET i == IndexOf(S.orders, "order_id", order_id) IN
  IF i = 0 THEN [orders |-> S.orders, events |-> S.events, code |-> 404]
  ELSE IF S.orders[i].status # "pending_approval"
  THEN [orders |-> S.orders, events |-> S.events, code |-> 400]
  ELSE
    LET o1 == [S.orders[i] EXCEPT !.status = "approved"] IN
    IF data.kind = "null"
    THEN [orders |-> [S.orders EXCEPT ![i] = o1], events |-> S.events, code |-> 500]
    ELSE
      LET o2 == [o1 EXCEPT !.approved_by = Some(Get(data.by, "system")),
                           !.approved_date = Some(isoformat(t)),
                           !.approval_notes = Some(Get(data.note, ""))]
          o3 == send_order_to_supplier(o2, t)
      IN [orders |-> [S.orders EXCEPT ![i] = o3],
          events |-> Append(S.events, trigger_reorder_webhook(o3)),
          code |-> 200]

\* reject_order without the test of the order's status.
reject_order_Unguarded(S, order_id, data, t) ==
  LET i == IndexOf(S.orders, "order_id", order_id) IN
  IF i = 0 THEN [orders |-> S.orders, events |-> S.events, code |-> 404]
  ELSE
    LET o1 == [S.orders[i] EXCEPT !.status = "rejected"] IN
    IF data.kind = "null"
    THEN [orders |-> [S.orders EXCEPT ![i] = o1], events |-> S.events, code |-> 500]
    ELSE
      LET o2 == [o1 EXCEPT !.rejected_by = Some(Get(data.by, "system")),
                           !.rejected_date = Some(isoformat(t)),
                           !.rejection_reason = Some(Get(data.note, ""))]
      IN [orders |-> [S.orders EXCEPT ![i] = o2], events |-> S.events, code |-> 200]

\* POST /orders/<order_id>/reject: [orders, events, code].
reject_order(S, order_id, data, t) ==
  LET i == IndexOf(S.orders, "order_id", order_id) IN
  IF i = 0 THEN [orders |-> S.orders, events |-> S.events, code |-> 404]
  ELSE IF S.orders[i].status # "pending_approval"
  THEN [orders |-> S.orders, events |-> S.events, code |-> 400]
  ELSE
    LET o1 == [S.orders[i] EXCEPT !.status = "rejected"] IN
    IF data.kind = "null"
    THEN [orders |-> [S.orders EXCEPT ![i] = o1], events |-> S.events, code |-> 500]
    ELSE
      LET o2 == [o1 EXCEPT !.rejected_by = Some(Get(data.by, "system")),
                           !.rejected_date = Some(isoformat(t)),
                           !.rejection_reason = Some(Get(data.note, ""))]
      IN [orders |-> [S.orders EXCEPT ![i] = o2], events |-> S.events, code |-> 200]

\* ---------------------------------------------------- trigger evaluator
\* One product's entry of inventory_data: current_stock and demand_forecast
\* may be absent, and so may the forecast's predicted_demand.
Entry(stock, forecast) == [current_stock |-> stock, demand_forecast |-> forecast]
Forecast(pd) == [predicted_demand |-> pd]

\* inventory_data.get(product_id, {}): the empty dict when the product is absent.
EmptyEntry == Entry(None, None)
EmptyForecast == Forecast(None)

\* inventory_data with the entry e1 for product p1 and e2 for p2.
Inventory(e1, e2) ==
  [kind |-> "json", inventory_data |-> [p \in Products |-> IF p = "p1" THEN e1 ELSE e2]]

\* The JSON body of POST /check-triggers: an object with inventory_data, or null.
Snapshots ==
  { Inventory(Some(Entry(Some(8), None)), Some(Entry(Some(8), Some(Forecast(Some(10)))))),
    Inventory(Some(Entry(Some(10), None)), Some(Entry(Some(10), Some(Forecast(Some(10)))))),
    Inventory(Some(Entry(Some(12), None)), Some(Entry(Some(8), None))),
    Inventory(None, Some(Entry(Some(-1), None))),
    [kind |-> "null", inventory_data |-> [p \in Products |-> None]] }

\* CurrentStock with 1 for a missing stock level.
CurrentStock_One(inventory_data, product_id) ==
  Get(Get(inventory_data[product_id], EmptyEntry).current_stock, 1)

\* inventory_data.get(product_id, {}).get('current_stock', 0)
CurrentStock(inventory_data, product_id) ==
  Get(Get(inventory_data[product_id], EmptyEntry).current_stock, 0)

\* inventory_data.get(product_id, {}).get('demand_forecast', {}).get('predicted_demand', 0)
PredictedDemand(inventory_data, product_id) ==
  Get(Get(Get(inventory_data[product_id], EmptyEntry).demand_forecast, EmptyForecast).predicted_demand, 0)

NoFire == [raise |-> FALSE, fire |-> FALSE, reason |-> Reason("", <<>>)]
Fire(reason) == [raise |-> FALSE, fire |-> TRUE, reason |-> reason]
Raise == [raise |-> TRUE, fire |-> FALSE, reason |-> Reason("", <<>>)]

\* ThresholdTrigger with the comparison written < instead of <=.
ThresholdTrigger_Strict(rule, inventory_data) ==
  LET current_stock == CurrentStock(inventory_data, rule.product_id) IN
  IF ~rule.trigger_value.num THEN Raise
  ELSE IF current_stock < rule.trigger_value.n
  THEN Fire(Reason("Stock level ({}) below threshold ({})",
                   <<current_stock, rule.trigger_value.n>>))
  ELSE NoFire

\* if current_stock <= rule['trigger_value']
ThresholdTrigger(rule, inventory_data) ==
  LET current_stock == CurrentStock(inventory_data, rule.product_id) IN
  IF ~rule.trigger_value.num THEN Raise
  ELSE IF current_stock <= rule.trigger_value.n
  THEN Fire(Reason("Stock level ({}) below threshold ({})",
                   <<current_stock, rule.trigger_value.n>>))
  ELSE NoFire

\* TimeBasedTrigger with the comparison written > instead of >=.
TimeBasedTrigger_Strict(rule, t) ==
  IF rule.last_triggered = None THEN Fire(Reason("First time trigger", <<>>))
  ELSE
    LET last_date == fromisoformat(rule.last_triggered[1])
        days_since == DaysBetween(t, last_date)
    IN IF ~rule.trigger_value.num THEN Raise
       ELSE IF days_since > rule.trigger_value.n
       THEN Fire(Reason("Time-based trigger: {} days since last order", <<days_since>>))
       ELSE NoFire

\* First time, or (utcnow() - last_date).days >= rule['trigger_value']
TimeBasedTrigger(rule, t) ==
  IF rule.last_triggered = None THEN Fire(Reason("First time trigger", <<>>))
  ELSE
    LET last_date == fromisoformat(rule.last_triggered[1])
        days_since == DaysBetween(t, last_date)
    IN IF ~rule.trigger_value.num THEN Raise
       ELSE IF days_since >= rule.trigger_value.n
       THEN Fire(Reason("Time-based trigger: {} days since last order", <<days_since>>))
       ELSE NoFire

\* if current_stock < predicted_demand
DemandForecastTrigger(rule, inventory_data) ==
  LET predicted_demand == PredictedDemand(inventory_data, rule.product_id)
      current_stock == CurrentStock(inventory_data, rule.product_id)
  IN IF current_stock < predicted_demand
     THEN Fire(Reason("Current stock ({}) below predicted demand ({})",
                      <<current_stock, predicted_demand>>))
     ELSE NoFire

\* The if / elif chain on rule['trigger_type'].
ShouldTrigger(rule, inventory_data, t) ==
  IF rule.trigger_type = "threshold" THEN ThresholdTrigger(rule, inventory_data)
  ELSE IF rule.trigger_type = "time_based" THEN TimeBasedTrigger(rule, t)
  ELSE IF rule.trigger_type = "demand_forecast" THEN DemandForecastTrigger(rule, inventory_data)
  ELSE NoFire

HolidayMonths == {11, 12, 1}

\* SeasonalQuantity rounding halves up instead of cutting them off.
SeasonalQuantity_HalfUp(reorder_qty) == (3 * reorder_qty + 1) \div 2

\* int(reorder_qty * 1.5): the fraction is cut off, towards zero.
SeasonalQuantity(reorder_qty) ==
  IF reorder_qty >= 0 THEN (3 * reorder_qty) \div 2
  ELSE 0 - ((0 - 3 * reorder_qty) \div 2)

\* reorder_qty of a firing rule in calendar month m.
ReorderQuantity(rule, m) ==
  IF Get(rule.seasonal_adjustment, FALSE) /\ m \in HolidayMonths
  THEN SeasonalQuantity(rule.reorder_quantity)
  ELSE rule.reorder_quantity

\* EvaluateRule without the write of rule['last_triggered'].
EvaluateRule_NoStamp(st, i, inventory_data, t, m0) ==
  LET rule == st.rules[i]
      d == ShouldTrigger(rule, inventory_data, t)
  IN IF rule.status # "active" THEN st
     ELSE IF d.raise THEN [st EXCEPT !.code = 500]
     ELSE IF ~d.fire THEN st
     ELSE
       LET r == create_reorder([orders |-> st.orders, events |-> st.events,
                                nextObj |-> st.nextObj],
                               rule, ReorderQuantity(rule, MonthAt(m0, t)), d.reason, t)
       IN [rules |-> [st.rules EXCEPT ![i] = [@ EXCEPT !.total_triggers = @ + 1]],
           orders |-> r.orders,
           events |-> r.events,
           nextObj |-> r.nextObj,
           triggered |-> Append(st.triggered, r.order),
           code |-> st.code]

\* EvaluateRule without the test of rule['status'].
EvaluateRule_AnyStatus(st, i, inventory_data, t, m0) ==
  LET rule == st.rules[i]
      d == ShouldTrigger(rule, inventory_data, t)
  IN IF d.raise THEN [st EXCEPT !.code = 500]
     ELSE IF ~d.fire THEN st
     ELSE
       LET r == create_reorder([orders |-> st.orders, events |-> st.events,
                                nextObj |-> st.nextObj],
                               rule, ReorderQuantity(rule, MonthAt(m0, t)), d.reason, t)
       IN [rules |-> [st.rules EXCEPT ![i] =
                        [@ EXCEPT !.last_triggered = Some(isoformat(t)),
                                  !.total_triggers = @ + 1]],
           orders |-> r.orders,
           events |-> r.events,
           nextObj |-> r.nextObj,
           triggered |-> Append(st.triggered, r.order),
           code |-> st.code]

\* The body of the for loop for the rule at position i, on
\* st = [rules, orders, events, nextObj, triggered, code], with the clock at t.
\* An exception leaves what was written so far and ends the call with 500.
EvaluateRule(st, i, inventory_data, t, m0) ==
  LET rule == st.rules[i]
      d == ShouldTrigger(rule, inventory_data, t)
  IN IF rule.status # "active" THEN st
     ELSE IF d.raise THEN [st EXCEPT !.code = 500]
     ELSE IF ~d.fire THEN st
     ELSE
       LET r == create_reorder([orders |-> st.orders, events |-> st.events,
                                nextObj |-> st.nextObj],
                               rule, ReorderQuantity(rule, MonthAt(m0, t)), d.reason, t)
       IN [rules |-> [st.rules EXCEPT ![i] =
                        [@ EXCEPT !.last_triggered = Some(isoformat(t)),
                                  !.total_triggers = @ + 1]],
           orders |-> r.orders,
           events |-> r.events,
           nextObj |-> r.nextObj,
           triggered |-> Append(st.triggered, r.order),
           code |-> st.code]

\* The for loop from position i on; adv[i] is how far the clock moves before
\* the iteration for rule i reads it.
RECURSIVE EvaluateFrom(_, _, _, _, _, _)
EvaluateFrom(st, i, inventory_data, t, adv, m0) ==
  IF i > Len(st.rules) \/ st.code = 500 THEN st
  ELSE EvaluateFrom(EvaluateRule(st, i, inventory_data, t + adv[i], m0),
                    i + 1, inventory_data, t + adv[i], adv, m0)

\* POST /check-triggers on S = [rules, orders, events, nextObj]:
\* [rules, orders, events, nextObj, triggered, code].
check_reorder_triggers(S, data, t, adv, m0) ==
  LET st0 == [rules |-> S.rules, orders |-> S.orders, events |-> S.events,
              nextObj |-> S.nextObj, triggered |-> <<>>, code |-> 200]
  IN IF data.kind = "null" THEN [st0 EXCEPT !.code = 500]
     ELSE EvaluateFrom(st0, 1, data.inventory_data, t, adv, m0)

\* POST /trigger: the first active rule of the product, in registry order.
ApplicableRule(rules, product_id) ==
  LET hits == { i \in DOMAIN rules :
                  rules[i].product_id = product_id /\ rules[i].status = "active" }
  IN IF hits = {} THEN 0 ELSE CHOOSE i \in hits : \A j \in hits : i <= j

\* POST /trigger on S = [rules, orders, events, nextObj]:
\* [orders, events, nextObj, triggered, code].
trigger_reorder(S, product_id, quantity, t) ==
  LET i == ApplicableRule(S.rules, product_id) IN
  IF i = 0
  THEN [orders |-> S.orders, events |-> S.events, nextObj |-> S.nextObj,
        triggered |-> <<>>, code |-> 404]
  ELSE
    LET r == create_reorder([orders |-> S.orders, events |-> S.events,
                             nextObj |-> S.nextObj],
                            S.rules[i], quantity, Reason("manual_trigger", <<>>), t)
    IN [orders |-> r.orders, events |-> r.events, nextObj |-> r.nextObj,
        triggered |-> <<r.order>>, code |-> 200]

\* ------------------------------------------------------------- actions
\* A rule dict handed to create_reorder by a caller of the function: the keys
\* the function reads with .get may be absent.
DirectRule(n, u, ar, at) ==
  [rule_id |-> <<"rule", 0 - n>>,
   product_id |-> "p1",
   trigger_type |-> "threshold",
   trigger_value |-> NUM(10),
   reorder_quantity |-> 5,
   unit_cost |-> u,
   approval_required |-> ar,
   approval_threshold |-> at,
   lead_time_days |-> None,
   seasonal_adjustment |-> None,
   status |-> "active",
   created_date |-> isoformat(0),
   last_triggered |-> None,
   total_triggers |-> 0,
   last_updated |-> None]

\* The (rule, quantity) pairs callers pass to create_reorder: the example rule
\* of the approval policy (unit cost 10, threshold 1000 by default) with a cost
\* below and above the threshold, and a rule whose threshold the cost equals.
DirectCalls ==
  { <<DirectRule(1, Some(10), None, None), 5>>,
    <<DirectRule(1, Some(10), None, None), 200>>,
    <<DirectRule(2, Some(10), Some(FALSE), Some(50)), 5>> }

DirectRules == { c[1] : c \in DirectCalls }

\* The quantity of a manual POST /trigger.
Quantities == {200}

DirectReasons == { Reason("Stockout risk", <<>>) }

NoKey == <<>>
NoReq == Req(None, None, None, None, None, None, None, None)

\* The record of a call: the handler, its HTTP status, the id in its URL (or
\* the id it generated) and, for POST /rules, the body sent.
Call(op, code, key, req) == [op |-> op, code |-> code, key |-> key, req |-> req]

Stores == [rules |-> reorder_rules, orders |-> pending_orders,
           events |-> events, nextObj |-> nextObj]

OrderIds == { pending_orders[i].order_id : i \in DOMAIN pending_orders }
RuleIds == { reorder_rules[i].rule_id : i \in DOMAIN reorder_rules }

\* The record of a forecasting call: the handler, its HTTP status, the product
\* and its numeric argument (horizon, actual demand or date).
FCall(op, code, product_id, arg) ==
  [op |-> op, code |-> code, product_id |-> product_id, arg |-> arg]

\* The forecasting service as the module leaves it at import: empty stores.
ForecastingIdle ==
  /\ historical_data = <<>>
  /\ forecast_data = <<>>
  /\ market_trends = <<>>
  /\ forecast_events = <<>>
  /\ flast = FCall("init", 200, None, 0)

\* The check-triggers requests that may run in parallel threads.
Requests == {1, 2}

\* The local variables of a request that has not started: the body it was sent,
\* the position of its loop, the reason found for the rule at that position,
\* the count it read for the increment, the orders it has collected and its
\* HTTP status; order is the order dict create_reorder is working on and
\* clock the reading of the clock that is about to be stored; overlapped
\* records whether another request was in flight at any moment of this one.
IdleFrame ==
  [data |-> [kind |-> "null", inventory_data |-> [p \in Products |-> None]],
   i |-> 0, reason |-> Reason("", <<>>), count |-> 0, triggered |-> <<>>,
   order |-> None, clock |-> None, code |-> 200, overlapped |-> FALSE]

NoRequestInFlight ==
  /\ pc = [c \in Requests |-> "idle"]
  /\ frame = [c \in Requests |-> IdleFrame]

Init ==
  /\ now = 0
  /\ epochMonth \in StartMonths
  /\ reorder_rules = <<>>
  /\ pending_orders = <<>>
  /\ events = <<>>
  /\ nextObj = 0
  /\ last = Call("init", 200, NoKey, NoReq)
  /\ calls = 0
  /\ ForecastingIdle
  /\ NoRequestInFlight

\* One more call is served.
Serve == calls < MaxCalls /\ calls' = calls + 1

\* The clock moves on between two calls.
Tick ==
  /\ calls < MaxCalls
  /\ now < MaxTime
  /\ now' = now + 1
  /\ UNCHANGED <<epochMonth, reorder_rules, pending_orders, events, nextObj, last, calls>>
  /\ UNCHANGED <<fvars, cvars>>

RegisterRule ==
  \E data \in RuleRequests :
    LET r == create_reorder_rule(reorder_rules, data, now) IN
    /\ reorder_rules' = r.rules
    /\ Serve
    /\ last' = Call("create_rule", r.code, <<"rule", now>>, data)
    /\ UNCHANGED <<now, epochMonth, pending_orders, events, nextObj>>
    /\ UNCHANGED <<fvars, cvars>>

UpdateRule ==
  \E rule_id \in RuleIds \cup {<<"rule", 0>>}, data \in UpdateRequests :
    LET r == update_reorder_rule(reorder_rules, rule_id, data, now) IN
    /\ reorder_rules' = r.rules
    /\ Serve
    /\ last' = Call("update_rule", r.code, rule_id, NoReq)
    /\ UNCHANGED <<now, epochMonth, pending_orders, events, nextObj>>
    /\ UNCHANGED <<fvars, cvars>>

TriggerReorder ==
  \E product_id \in Products, quantity \in Quantities :
    LET r == trigger_reorder(Stores, product_id, quantity, now) IN
    /\ pending_orders' = r.orders
    /\ events' = r.events
    /\ nextObj' = r.nextObj
    /\ Serve
    /\ last' = Call("trigger", r.code, NoKey, NoReq)
    /\ UNCHANGED <<now, epochMonth, reorder_rules>>
    /\ UNCHANGED <<fvars, cvars>>

CreateOrder ==
  \E c \in DirectCalls, reason \in DirectReasons :
    LET r == create_reorder([orders |-> pending_orders, events |-> events,
                             nextObj |-> nextObj], c[1], c[2], reason, now) IN
    /\ pending_orders' = r.orders
    /\ events' = r.events
    /\ nextObj' = r.nextObj
    /\ Serve
    /\ last' = Call("create_reorder", 200, NoKey, NoReq)
    /\ UNCHANGED <<now, epochMonth, reorder_rules>>
    /\ UNCHANGED <<fvars, cvars>>

EvaluateTriggers ==
  \E data \in Snapshots, adv \in [DOMAIN reorder_rules -> {0, 1}] :
    LET t1 == now + SumSeq(adv)
        r == check_reorder_triggers(Stores, data, now, adv, epochMonth)
    IN
    /\ t1 <= MaxTime
    /\ now' = t1
    /\ reorder_rules' = r.rules
    /\ pending_orders' = r.orders
    /\ events' = r.events
    /\ nextObj' = r.nextObj
    /\ Serve
    /\ last' = Call("check_triggers", r.code, NoKey, NoReq)
    /\ UNCHANGED epochMonth
    /\ UNCHANGED <<fvars, cvars>>

ApproveOrder ==
  \E order_id \in OrderIds \cup {<<"order", -1>>}, data \in Bodies :
    LET r == approve_order(Stores, order_id, data, now) IN
    /\ pending_orders' = r.orders
    /\ events' = r.events
    /\ Serve
    /\ last' = Call("approve", r.code, order_id, NoReq)
    /\ UNCHANGED <<now, epochMonth, reorder_rules, nextObj>>
    /\ UNCHANGED <<fvars, cvars>>

RejectOrder ==
  \E order_id \in OrderIds \cup {<<"order", -1>>}, data \in Bodies :
    LET r == reject_order(Stores, order_id, data, now) IN
    /\ pending_orders' = r.orders
    /\ events' = r.events
    /\ Serve
    /\ last' = Call("reject", r.code, order_id, NoReq)
    /\ UNCHANGED <<now, epochMonth, reorder_rules, nextObj>>
    /\ UNCHANGED <<fvars, cvars>>

Next ==
  \/ Tick
  \/ RegisterRule
  \/ UpdateRule
  \/ TriggerReorder
  \/ CreateOrder
  \/ EvaluateTriggers
  \/ ApproveOrder
  \/ RejectOrder

Spec == Init /\ [][Next]_vars

\* ================================================== forecasting service
\* Model of src/src/routes/forecasting.py: the historical series, the forecast
\* engine and the accuracy tracker.
\*   - A date is the number of its calendar day, day 0 being the day the run
\*     starts; a handler takes its reference day from one reading of the clock.
\*   - A float that the code rounds to 2 decimals is its number of hundredths;
\*     the unrounded floats in between are exact fractions [n, d] with d > 0.
\*   - A demand is a JSON number: the exact fraction [n, d] it denotes.

\* --------------------------------------------- constants of the program
MinRecords == 7          \* len(historical) < 7
WindowRecords == 30      \* historical[-30:]
AverageRecords == 7      \* demands[-7:]
PatternRecords == 14     \* historical[-14:], demands[-14:]
RetentionDays == 365     \* timedelta(days=365)
BaseConfidence == 60
ConfidencePerRecord == 2
MaxConfidence == 95

\* The weekday (Monday = 0) of day 0.
StartWeekday == 0

\* datetime.utcnow() as a calendar day, and date.weekday().
Today(t) == t \div TicksPerDay
Weekday(d) == (d + StartWeekday) % 7

\* ------------------------------------------------------------ fractions
RECURSIVE Gcd(_, _)
Gcd(a, b) == IF b = 0 THEN a ELSE Gcd(b, a % b)

Abs(x) == IF x < 0 THEN 0 - x ELSE x
Max(a, b) == IF a >= b THEN a ELSE b
Min(a, b) == IF a <= b THEN a ELSE b

\* The fraction n / d in lowest terms, d > 0.
Frac(n, d) ==
  LET g == Gcd(Abs(n), d) IN
  IF n = 0 THEN [n |-> 0, d |-> 1] ELSE [n |-> n \div g, d |-> d \div g]

FracAdd(x, y) == Frac(x.n * y.d + y.n * x.d, x.d * y.d)
FracSub(x, y) == Frac(x.n * y.d - y.n * x.d, x.d * y.d)
FracMul(x, y) ==
  LET g == Gcd(Abs(x.n), y.d)
      h == Gcd(Abs(y.n), x.d)
  IN IF x.n = 0 \/ y.n = 0 THEN [n |-> 0, d |-> 1]
     ELSE [n |-> (x.n \div g) * (y.n \div h), d |-> (x.d \div h) * (y.d \div g)]
FracMax0(x) == IF x.n < 0 THEN Frac(0, 1) ELSE x

\* x / y for y > 0, x < y, and max(x, y).
FracDiv(x, y) == FracMul(x, [n |-> y.d, d |-> y.n])
FracLess(x, y) == x.n * y.d < y.n * x.d
FracMax(x, y) == IF FracLess(x, y) THEN y ELSE x

\* A whole number as a fraction.
Whole(n) == Frac(n, 1)

\* sum(s) of a list of fractions; exact, so the two halves are added up apart.
RECURSIVE FracSum(_)
FracSum(s) ==
  IF s = <<>> THEN Whole(0)
  ELSE IF Len(s) = 1 THEN FracAdd(s[1], Whole(0))
  ELSE LET h == Len(s) \div 2 IN
       FracAdd(FracSum(SubSeq(s, 1, h)), FracSum(SubSeq(s, h + 1, Len(s))))

\* ----------------------------------------------------- binary64 arithmetic
\* A Python float is an IEEE 754 double and every operation on floats rounds
\* its exact result to the nearest double, a half going to the even mantissa.
\* A natural number of any size is the sequence of its digits in base Radix,
\* lowest first, without leading zeros.
Radix == 32768
LimbBits == 15
MantissaBits == 53

\* The element of a set of one element: in The({ e : v \in {x} }) the value of
\* x is worked out once, named v, and e is worked out from it.
The(S) == CHOOSE v \in S : TRUE

Pow2(k) == 2 ^ k

RECURSIVE BigOf(_)
BigOf(n) == IF n = 0 THEN <<>> ELSE <<n % Radix>> \o BigOf(n \div Radix)

\* a without its leading zeros.
BigTrim(a) ==
  The({ LET D == { k \in DOMAIN v : v[k] # 0 } IN
        IF D = {} THEN <<>>
        ELSE SubSeq(v, 1, CHOOSE j \in D : \A i \in D : i <= j) : v \in {a} })

Limb(a, k) == IF k \in DOMAIN a THEN a[k] ELSE 0

\* -1, 0, 1 as a < b, a = b, a > b.
BigCmp(a, b) ==
  The({ IF Len(u) # Len(v) THEN (IF Len(u) < Len(v) THEN -1 ELSE 1)
        ELSE LET D == { k \in DOMAIN u : u[k] # v[k] } IN
             IF D = {} THEN 0
             ELSE LET k == CHOOSE j \in D : \A i \in D : i <= j IN
                  IF u[k] < v[k] THEN -1 ELSE 1 : u \in {a}, v \in {b} })

\* a + b. The digits are added place by place and written down as the
\* sequence t; a place takes a carry when a lower place overflowed (those are
\* G) and every place between the two is full.
BigAdd(a, b) ==
  The({ BigTrim([k \in 1..(Len(t) + 1) |->
                   (Limb(t, k)
                      + (IF \E j \in G : j < k /\ \A i \in (j + 1)..(k - 1) : t[i] >= Radix - 1
                         THEN 1 ELSE 0)) % Radix]) :
        <<t, G>> \in { <<t0, { j \in DOMAIN t0 : t0[j] >= Radix }>> :
                       t0 \in { <<>> \o [k \in 1..(IF Len(u) < Len(v) THEN Len(v) ELSE Len(u)) |->
                                          Limb(u, k) + Limb(v, k)] : u \in {a}, v \in {b} } } })

\* a - b for a >= b: a place is borrowed from when a lower place fell short
\* (those are G) and every place between the two is empty.
BigSub(a, b) ==
  The({ BigTrim([k \in 1..Len(t) |->
                   (t[k]
                      - (IF \E j \in G : j < k /\ \A i \in (j + 1)..(k - 1) : t[i] <= 0
                         THEN 1 ELSE 0)) % Radix]) :
        <<t, G>> \in { <<t0, { j \in DOMAIN t0 : t0[j] < 0 }>> :
                       t0 \in { <<>> \o [k \in 1..Len(u) |-> u[k] - Limb(v, k)] :
                                u \in {a}, v \in {b} } } })

\* a * m for a digit m: the low halves of the products of the digits plus
\* their high halves one place up.
BigMulSmall(a, m) ==
  The({ IF n = 0 THEN <<>>
        ELSE BigAdd([k \in DOMAIN u |-> (u[k] * n) % Radix],
                    <<0>> \o [k \in DOMAIN u |-> (u[k] * n) \div Radix]) :
        u \in {a}, n \in {m} })

BigShlLimbs(a, q) ==
  The({ IF u = <<>> THEN u ELSE [k \in 1..q |-> 0] \o u : u \in {a} })

RECURSIVE BigMulTo(_, _, _)
BigMulTo(a, b, j) ==
  IF j = 0 THEN <<>>
  ELSE BigAdd(BigMulTo(a, b, j - 1), BigShlLimbs(BigMulSmall(a, b[j]), j - 1))

BigMul(a, b) == The({ BigMulTo(u, v, Len(v)) : u \in {a}, v \in {b} })

\* a * 2^k and the whole part of a / 2^k.
BigShl(a, k) ==
  The({ BigTrim([j \in 1..(Len(u) + q + 1) |->
                   IF j <= q THEN 0
                   ELSE ((Limb(u, j - q) * Pow2(r)) % Radix)
                          + (Limb(u, j - q - 1) \div Pow2(LimbBits - r))]) :
        u \in {a}, q \in {k \div LimbBits}, r \in {k % LimbBits} })

BigShr(a, k) ==
  The({ LET h == IF q >= Len(u) THEN <<>> ELSE SubSeq(u, q + 1, Len(u)) IN
        BigTrim([j \in 1..Len(h) |->
                   (h[j] \div Pow2(r)) + (Limb(h, j + 1) % Pow2(r)) * Pow2(LimbBits - r)]) :
        u \in {a}, q \in {k \div LimbBits}, r \in {k % LimbBits} })

BitLen(x) == IF x = 0 THEN 0 ELSE CHOOSE k \in 1..LimbBits : Pow2(k - 1) <= x /\ x < Pow2(k)

BigBitLen(a) ==
  The({ IF u = <<>> THEN 0 ELSE LimbBits * (Len(u) - 1) + BitLen(u[Len(u)]) : u \in {a} })

\* The digit q with b * q <= a < b * (q + 1), for a < b * Radix and b with its
\* highest digit at Radix / 2 or above: the two highest digits of a divided by
\* the highest digit of b give q, q + 1 or q + 2.
QuotDigit(a, b) ==
  The({ IF BigCmp(BigMulSmall(b, est), a) <= 0 THEN est
        ELSE IF BigCmp(BigMulSmall(b, est - 1), a) <= 0 THEN est - 1
        ELSE est - 2 :
        est \in { LET guess == (Limb(a, Len(b) + 1) * Radix + Limb(a, Len(b))) \div b[Len(b)]
                  IN IF guess < Radix THEN guess ELSE Radix - 1 } })

\* One step of long division by b: the digit x is put under the remainder
\* st.r < b, the quotient digit goes in front of st.q (lowest digit first).
BigDivStep(x, b, st) ==
  The({ The({ [q |-> <<d>> \o s.q, r |-> BigSub(cur, BigMulSmall(b, d))] :
              d \in {IF BigCmp(cur, b) < 0 THEN 0 ELSE QuotDigit(cur, b)} }) :
        <<s, cur>> \in { <<s0, BigTrim(<<x>> \o s0.r)>> : s0 \in {st} } })

\* Long division of the digits hi, hi - 1, .., lo of a by b: the upper half of
\* the range, then the lower half.
RECURSIVE BigDivOver(_, _, _, _, _)
BigDivOver(a, b, hi, lo, st) ==
  IF hi = lo THEN BigDivStep(a[hi], b, st)
  ELSE The({ BigDivOver(a, b, (lo + hi) \div 2, lo, upper) :
             upper \in {BigDivOver(a, b, hi, ((lo + hi) \div 2) + 1, st)} })

\* [q, r] with a = b * q + r and r < b, for b # 0: both are shifted so that the
\* highest digit of b is Radix / 2 or above, which leaves q as it is.
BigDivMod(a, b) ==
  The({ The({ [q |-> BigTrim(d.q), r |-> BigShr(d.r, s)] :
              d \in { IF u = <<>> THEN [q |-> <<>>, r |-> <<>>]
                      ELSE BigDivOver(u, v, Len(u), 1, [q |-> <<>>, r |-> <<>>]) :
                      u \in {BigShl(a, s)}, v \in {BigShl(b, s)} } }) :
        s \in { LimbBits - BitLen(w[Len(w)]) : w \in {b} } })

BigOdd(a) == \E u \in {a} : u # <<>> /\ u[1] % 2 = 1

\* a + 1.
BigInc(a) ==
  The({ LET D == { k \in DOMAIN u : u[k] # Radix - 1 } IN
        IF D = {} THEN [k \in DOMAIN u |-> 0] \o <<1>>
        ELSE LET first == CHOOSE j \in D : \A i \in D : j <= i IN
             [k \in DOMAIN u |-> IF k < first THEN 0
                                 ELSE IF k = first THEN u[k] + 1
                                 ELSE u[k]] : u \in {a} })

\* The bit of a that counts 2^i, and whether a has a bit set below it.
BigBit(a, i) == (Limb(a, (i \div LimbBits) + 1) \div Pow2(i % LimbBits)) % 2

BigAnyBelow(a, i) ==
  \/ \E j \in 1..(i \div LimbBits) : Limb(a, j) # 0
  \/ Limb(a, (i \div LimbBits) + 1) % Pow2(i % LimbBits) # 0

\* a / 2^k rounded to the nearest whole number, a half going to the even one:
\* the bits shifted out are more than a half, or a half and the result is odd.
BigShrNearest(a, k) ==
  IF k = 0 THEN a
  ELSE The({ IF BigBit(u, k - 1) = 1 /\ (BigAnyBelow(u, k - 1) \/ BigOdd(q))
             THEN BigInc(q) ELSE q :
             <<u, q>> \in { <<v, BigShr(v, k)>> : v \in {a} } })

\* The whole number a of at most 31 bits.
BigToInt(a) ==
  The({ Limb(u, 1) + Radix * Limb(u, 2) + Radix * Radix * Limb(u, 3) : u \in {a} })

\* A double is [neg, m, e]: m * 2^e, negated when neg, with m of 53 bits, or
\* zero (m = <<>>).
F64Zero == [neg |-> FALSE, m |-> <<>>, e |-> 0]

\* The double nearest to m * 2^e (negated when neg), ties to even: m of n bits
\* is shifted up to 53 bits, or down to q of 53 bits, which rounding may
\* carry to 54.
F64Nearest(neg, m, e) ==
  The({ IF v = <<>> THEN F64Zero
        ELSE IF n <= MantissaBits
        THEN [neg |-> neg, m |-> BigShl(v, MantissaBits - n), e |-> e - (MantissaBits - n)]
        ELSE IF BigBitLen(q) > MantissaBits
        THEN [neg |-> neg, m |-> BigShr(q, 1), e |-> e + (n - MantissaBits) + 1]
        ELSE [neg |-> neg, m |-> q, e |-> e + (n - MantissaBits)] :
        <<v, n, q>> \in { <<v0, n0, IF n0 > MantissaBits
                                    THEN BigShrNearest(v0, n0 - MantissaBits) ELSE v0>> :
                          <<v0, n0>> \in { <<w, BigBitLen(w)>> : w \in {m} } } })

\* float(n) of a whole number n.
F64Int(n) == F64Nearest(n < 0, BigOf(IF n < 0 THEN 0 - n ELSE n), 0)

F64Neg(x) == The({ IF u.m = <<>> THEN u ELSE [u EXCEPT !.neg = ~@] : u \in {x} })
F64Abs(x) == [x EXCEPT !.neg = FALSE]

\* x + y: both mantissas are brought to the lower exponent, then added, or
\* the smaller taken off the larger. Past 64 binary places the smaller operand
\* does not reach the sum.
F64Add(x, y) ==
  The({ IF u.m = <<>> THEN v
        ELSE IF v.m = <<>> THEN u
        ELSE IF u.e - v.e > 64 THEN u
        ELSE IF v.e - u.e > 64 THEN v
        ELSE The({ IF u.neg = v.neg THEN F64Nearest(u.neg, BigAdd(a, b), e)
                   ELSE IF a = b THEN F64Zero
                   ELSE IF BigCmp(a, b) > 0 THEN F64Nearest(u.neg, BigSub(a, b), e)
                   ELSE F64Nearest(v.neg, BigSub(b, a), e) :
                   <<a, b, e>> \in { <<BigShl(u.m, u.e - e0), BigShl(v.m, v.e - e0), e0>> :
                                     e0 \in {IF u.e < v.e THEN u.e ELSE v.e} } }) :
        u \in {x}, v \in {y} })

F64Sub(x, y) == F64Add(x, F64Neg(y))

F64Mul(x, y) ==
  The({ IF u.m = <<>> \/ v.m = <<>> THEN F64Zero
        ELSE F64Nearest(u.neg # v.neg, BigMul(u.m, v.m), u.e + v.e) : u \in {x}, v \in {y} })

\* x / y for y # 0: 57 or 58 bits of the quotient, the last one telling
\* whether anything is left below them.
F64Div(x, y) ==
  The({ IF u.m = <<>> THEN F64Zero
        ELSE The({ F64Nearest(u.neg # v.neg,
                              BigAdd(BigShl(d.q, 1), IF d.r = <<>> THEN <<>> ELSE <<1>>),
                              u.e - v.e - (MantissaBits + 4)) :
                   d \in {BigDivMod(BigShl(u.m, MantissaBits + 3), v.m)} }) :
        u \in {x}, v \in {y} })

F64Less(x, y) == \E d \in {F64Sub(x, y)} : d.m # <<>> /\ d.neg

F64Max(x, y) == The({ IF F64Less(u, v) THEN v ELSE u : u \in {x}, v \in {y} })

\* round(x, 2) of a double, in hundredths: the binary value of x is rounded,
\* a half going to the even hundredth.
F64Round2(x) ==
  The({ The({ IF u.neg THEN 0 - BigToInt(h) ELSE BigToInt(h) :
              h \in { IF u.e >= 0 THEN BigShl(c, u.e)
                      ELSE IF 0 - u.e > BigBitLen(c) + 1 THEN <<>>
                      ELSE BigShrNearest(c, 0 - u.e) : c \in {BigMulSmall(u.m, 100)} } }) :
        u \in {x} })

\* The double of a JSON number [n, d] and of a float of 2 decimals given in
\* hundredths: the double nearest to the decimal literal.
F64Of(x) == IF x.d = 1 THEN F64Int(x.n) ELSE F64Div(F64Int(x.n), F64Int(x.d))
F64Hundredths(h) == F64Div(F64Int(h), F64Int(100))

\* The literals 0.1 and 0.8.
F64Tenth == F64Div(F64Int(1), F64Int(10))
F64WeekendFactor == F64Div(F64Int(4), F64Int(5))

\* sum(s) of a list of numbers: added up from the left, starting from 0. The
\* numbers lo..hi are added to acc as the lower half, then the upper half.
RECURSIVE F64SumOver(_, _, _, _)
F64SumOver(s, lo, hi, acc) ==
  IF lo = hi THEN F64Add(acc, s[lo])
  ELSE The({ F64SumOver(s, ((lo + hi) \div 2) + 1, hi, left) :
             left \in {F64SumOver(s, lo, (lo + hi) \div 2, acc)} })

F64Sum(s) == The({ IF v = <<>> THEN F64Zero ELSE F64SumOver(v, 1, Len(v), F64Zero) : v \in {s} })

\* The doubles of a list of JSON numbers and of a list of hundredths.
Doubles(s) == [k \in DOMAIN s |-> F64Of(s[k])]
DoublesOfHundredths(s) == [k \in DOMAIN s |-> F64Hundredths(s[k])]

\* ------------------------------------------------ rounding and comparing
\* A quantity the code computes in floats is carried twice: x, the exact
\* fraction the formula denotes, and f, the double the code holds after the
\* same operations in the same order. The double differs from the fraction by
\* less than one part in 10^12, so the two round and compare alike unless the
\* fraction is at, or within one part in Guard of, the point where the outcome
\* changes; there the double decides.
Guard == 1000

\* round(x, 2) in hundredths: the double is rounded when 100 * x is half-way
\* between two whole numbers or within 1 / Guard of it.
Round2(x, f) ==
  LET g == Gcd(100, x.d)
      n == (100 \div g) * x.n
      d == x.d \div g
      q == n \div d
      r == n % d
  IN IF Abs(2 * r - d) <= (2 * d) \div Guard THEN F64Round2(f)
     ELSE IF 2 * r < d THEN q
     ELSE q + 1

\* x > y for the fractions x, y held as the doubles f, g.
Exceeds(x, y, f, g) ==
  LET a == x.n * y.d
      b == y.n * x.d
  IN IF Abs(a - b) <= Max(Abs(a), Abs(b)) \div Guard THEN F64Less(g, f) ELSE a > b

\* ------------------------------------------------------- list helpers
\* s[-n:]
LastN(s, n) == IF Len(s) <= n THEN s ELSE SubSeq(s, Len(s) - n + 1, Len(s))

\* s[-n:-m] for n > m > 0
Slice(s, n, m) == SubSeq(s, Max(1, Len(s) - n + 1), Len(s) - m)

\* [record['demand'] for record in s]
Demands(s) == [k \in DOMAIN s |-> s[k].demand]

\* list.sort(key=lambda x: x['date']): a stable sort, here by insertion.
RECURSIVE InsertByDate(_, _)
InsertByDate(sorted, rec) ==
  IF sorted = <<>> THEN <<rec>>
  ELSE IF sorted[Len(sorted)].date <= rec.date THEN Append(sorted, rec)
  ELSE Append(InsertByDate(SubSeq(sorted, 1, Len(sorted) - 1), rec), sorted[Len(sorted)])

RECURSIVE SortByDate(_)
SortByDate(s) ==
  IF s = <<>> THEN <<>>
  ELSE InsertByDate(SortByDate(SubSeq(s, 1, Len(s) - 1)), s[Len(s)])

\* ----------------------------------------------------- historical series
\* The JSON body of POST /historical: every key may be absent.
HistoryReq(p, date, demand) ==
  [product_id |-> p, date |-> date, demand |-> demand, sales |-> None,
   price |-> None, promotions |-> None]

\* The record built by add_historical_data (external_factors, an open mapping
\* the service only stores, is left out).
HistoricalRecord(data, t) ==
  [date |-> data.date[1],
   demand |-> data.demand[1],
   sales |-> Get(data.sales, 0),
   price |-> Get(data.price, 0),
   promotions |-> Get(data.promotions, FALSE),
   added_date |-> isoformat(t)]

\* historical_data.get(product_id, [])
Series(history, product_id) ==
  LET i == IndexOf(history, "product_id", product_id) IN
  IF i = 0 THEN <<>> ELSE history[i].records

\* datetime.fromisoformat(record['date']) > utcnow() - timedelta(days=365)
Retained(rec, t) == rec.date > Today(t) - RetentionDays

\* POST /historical: [history, code]. The record is appended, the records
\* older than the retention window are dropped, and the list is sorted.
add_historical_data(history, data, t) ==
  IF data.product_id = None \/ data.date = None \/ data.demand = None
  THEN [history |-> history, code |-> 400]
  ELSE
    LET product_id == data.product_id[1]
        appended == Append(Series(history, product_id), HistoricalRecord(data, t))
        kept == SelectSeq(appended, LAMBDA rec : Retained(rec, t))
    IN [history |-> Put(history, "product_id",
                        [product_id |-> product_id, records |-> SortByDate(kept)]),
        code |-> 200]

\* ------------------------------------------------------ forecast engine
\* Every quantity of the engine is defined twice: as the exact fraction and,
\* with the prefix F64, as the double the code computes.

\* sum(demands[-7:]) / 7
MovingAverage(demands) ==
  FracDiv(FracSum(LastN(demands, AverageRecords)), Whole(AverageRecords))

F64MovingAverage(demands) ==
  F64Div(F64Sum(Doubles(LastN(demands, AverageRecords))), F64Int(AverageRecords))

\* (recent_avg - older_avg) / 7 with 14 demands or more, else 0.
Trend(demands) ==
  IF Len(demands) >= PatternRecords
  THEN LET recent_avg == FracDiv(FracSum(LastN(demands, AverageRecords)),
                                 Whole(AverageRecords))
           older_avg == FracDiv(FracSum(Slice(demands, PatternRecords, AverageRecords)),
                                Whole(AverageRecords))
       IN FracDiv(FracSub(recent_avg, older_avg), Whole(AverageRecords))
  ELSE Whole(0)

F64Trend(demands) ==
  IF Len(demands) >= PatternRecords
  THEN LET recent_avg == F64Div(F64Sum(Doubles(LastN(demands, AverageRecords))),
                                F64Int(AverageRecords))
           older_avg == F64Div(F64Sum(Doubles(Slice(demands, PatternRecords, AverageRecords))),
                               F64Int(AverageRecords))
       IN F64Div(F64Sub(recent_avg, older_avg), F64Int(AverageRecords))
  ELSE F64Zero

\* weekly_pattern[current_day]: the demands of the last 14 records that fall on
\* the weekday of the reference day.
SameWeekday(historical, current_day) ==
  SelectSeq(LastN(historical, PatternRecords),
            LAMBDA rec : Weekday(rec.date) = current_day)

\* day_avg / max(overall_avg, 1) when there are 14 demands and the weekday of the
\* reference day occurs among the last 14 records, else 1.0.
SeasonalFactor(historical, demands, current_day) ==
  LET same == SameWeekday(historical, current_day) IN
  IF Len(demands) >= PatternRecords /\ same # <<>>
  THEN LET day_avg == FracDiv(FracSum(Demands(same)), Whole(Len(same)))
           overall_avg == FracDiv(FracSum(LastN(demands, PatternRecords)),
                                  Whole(PatternRecords))
       IN FracDiv(day_avg, FracMax(overall_avg, Whole(1)))
  ELSE Whole(1)

F64SeasonalFactor(historical, demands, current_day) ==
  LET same == SameWeekday(historical, current_day) IN
  IF Len(demands) >= PatternRecords /\ same # <<>>
  THEN The({ F64Div(day_avg, F64Max(overall_avg, F64Int(1))) :
             day_avg \in {F64Div(F64Sum(Doubles(Demands(same))), F64Int(Len(same)))},
             overall_avg \in {F64Div(F64Sum(Doubles(LastN(demands, PatternRecords))),
                                     F64Int(PatternRecords))} })
  ELSE F64Int(1)

\* The weekend factor 0.8 on Saturday (5) and Sunday (6).
WeekendFactor(day_of_week) == IF day_of_week \in {5, 6} THEN Frac(4, 5) ELSE Frac(1, 1)

\* daily_demand of the day-th day of the forecast, before it is rounded.
DailyDemand(base_demand, trend, seasonal_factor, current_day, day) ==
  FracMax0(FracMul(FracMul(FracAdd(base_demand, FracMul(trend, Frac(day, 1))),
                           WeekendFactor((current_day + day) % 7)),
                   seasonal_factor))

\* The same in doubles: the trend is added, the weekend factor is multiplied in
\* on a weekend day only, then the seasonal factor, then max(0, .).
F64DailyDemand(base_demand, trend, seasonal_factor, current_day, day) ==
  The({ LET with_trend == F64Add(b, F64Mul(t, F64Int(day)))
            with_weekend == IF (current_day + day) % 7 \in {5, 6}
                            THEN F64Mul(with_trend, F64WeekendFactor)
                            ELSE with_trend
        IN F64Max(F64Zero, F64Mul(with_weekend, s)) :
        b \in {base_demand}, t \in {trend}, s \in {seasonal_factor} })

\* TrendDirection without the dead band: any trend above 0 is increasing, any
\* trend below 0 is decreasing.
TrendDirection_NoDeadBand(trend, f) ==
  IF trend.n > 0 THEN "increasing"
  ELSE IF trend.n < 0 THEN "decreasing"
  ELSE "stable"

\* trend > 0.1 / trend < -0.1 / else, for the trend held as the double f.
TrendDirection(trend, f) ==
  IF Exceeds(trend, Frac(1, 10), f, F64Tenth) THEN "increasing"
  ELSE IF Exceeds(Frac(-1, 10), trend, F64Neg(F64Tenth), f) THEN "decreasing"
  ELSE "stable"

\* Confidence without the cap.
Confidence_Uncapped(demands) == BaseConfidence + Len(demands) * ConfidencePerRecord

\* min(95, 60 + len(demands) * 2)
Confidence(demands) == Min(MaxConfidence, BaseConfidence + Len(demands) * ConfidencePerRecord)

\* generate_demand_forecast that averages the whole series instead of the last
\* 7 of the 30 most recent records.
generate_demand_forecast_WholeSeries(product_id, historical, forecast_period, t) ==
  LET demands == Demands(historical)
      ma_forecast == FracDiv(FracSum(demands), Whole(Len(demands)))
      trend == Trend(demands)
      current_day == Weekday(Today(t))
      seasonal_factor == SeasonalFactor(historical, demands, current_day)
      f_ma_forecast == F64Div(F64Sum(Doubles(demands)), F64Int(Len(demands)))
      f_trend == F64Trend(demands)
      f_seasonal_factor == F64SeasonalFactor(historical, demands, current_day)
      daily_forecast ==
        [k \in 1..forecast_period |->
           [date |-> Today(t) + (k - 1),
            predicted_demand |->
              Round2(DailyDemand(ma_forecast, trend, seasonal_factor, current_day, k - 1),
                     F64DailyDemand(f_ma_forecast, f_trend, f_seasonal_factor,
                                    current_day, k - 1))]]
  IN The({ [predicted_demand |-> SumSeq([k \in DOMAIN days |-> days[k].predicted_demand]),
            confidence_level |-> Confidence(demands),
            trend_direction |-> TrendDirection(trend, f_trend),
            seasonal_factor |-> Round2(seasonal_factor, f_seasonal_factor),
            daily_forecast |-> days,
            model_used |-> "moving_average_with_trend",
            accuracy_score |-> 0] :
           days \in {daily_forecast} })

\* generate_demand_forecast that adds up the per-day values before they are
\* rounded and rounds the sum.
generate_demand_forecast_UnroundedTotal(product_id, historical, forecast_period, t) ==
  LET demands == Demands(LastN(historical, WindowRecords))
      ma_forecast == MovingAverage(demands)
      trend == Trend(demands)
      current_day == Weekday(Today(t))
      seasonal_factor == SeasonalFactor(historical, demands, current_day)
      f_ma_forecast == F64MovingAverage(demands)
      f_trend == F64Trend(demands)
      f_seasonal_factor == F64SeasonalFactor(historical, demands, current_day)
      daily == [k \in 1..forecast_period |->
                  DailyDemand(ma_forecast, trend, seasonal_factor, current_day, k - 1)]
      f_daily == [k \in 1..forecast_period |->
                    F64DailyDemand(f_ma_forecast, f_trend, f_seasonal_factor,
                                   current_day, k - 1)]
      daily_forecast ==
        [k \in 1..forecast_period |->
           [date |-> Today(t) + (k - 1),
            predicted_demand |-> Round2(daily[k], f_daily[k])]]
  IN [predicted_demand |-> Round2(FracSum(daily), F64Sum(f_daily)),
      confidence_level |-> Confidence(demands),
      trend_direction |-> TrendDirection(trend, f_trend),
      seasonal_factor |-> Round2(seasonal_factor, f_seasonal_factor),
      daily_forecast |-> daily_forecast,
      model_used |-> "moving_average_with_trend",
      accuracy_score |-> 0]

\* generate_demand_forecast(product_id, historical, forecast_period) with the
\* clock at t; the caller has checked that there are 7 records or more.
generate_demand_forecast(product_id, historical, forecast_period, t) ==
  LET demands == Demands(LastN(historical, WindowRecords))
      ma_forecast == MovingAverage(demands)
      trend == Trend(demands)
      current_day == Weekday(Today(t))
      seasonal_factor == SeasonalFactor(historical, demands, current_day)
      f_ma_forecast == F64MovingAverage(demands)
      f_trend == F64Trend(demands)
      f_seasonal_factor == F64SeasonalFactor(historical, demands, current_day)
      daily_forecast ==
        [k \in 1..forecast_period |->
           [date |-> Today(t) + (k - 1),
            predicted_demand |->
              Round2(DailyDemand(ma_forecast, trend, seasonal_factor, current_day, k - 1),
                     F64DailyDemand(f_ma_forecast, f_trend, f_seasonal_factor,
                                    current_day, k - 1))]]
  IN The({ [predicted_demand |-> SumSeq([k \in DOMAIN days |-> days[k].predicted_demand]),
            confidence_level |-> Confidence(demands),
            trend_direction |-> TrendDirection(trend, f_trend),
            seasonal_factor |-> Round2(seasonal_factor, f_seasonal_factor),
            daily_forecast |-> days,
            model_used |-> "moving_average_with_trend",
            accuracy_score |-> 0] :
           days \in {daily_forecast} })

\* The JSON body of POST /forecasts.
ForecastReq(p, period) == [product_id |-> p, forecast_period_days |-> period, product_name |-> None]

\* The forecast dict stored by create_forecast; the keys written by the
\* accuracy tracker are absent until the forecast is reconciled.
NewForecast(data, result, t) ==
  [product_id |-> data.product_id[1],
   product_name |-> Get(data.product_name, ""),
   forecast_period_days |-> data.forecast_period_days[1],
   predicted_demand |-> result.predicted_demand,
   confidence_level |-> result.confidence_level,
   trend_direction |-> result.trend_direction,
   seasonal_factor |-> result.seasonal_factor,
   forecast_breakdown |-> result.daily_forecast,
   model_used |-> result.model_used,
   created_date |-> isoformat(t),
   valid_until |-> isoformat(t + data.forecast_period_days[1] * TicksPerDay),
   accuracy_score |-> result.accuracy_score,
   actual_demand |-> None,
   forecast_error |-> None,
   percentage_error |-> None,
   accuracy_updated |-> None]

\* The payload of the forecast-updated event.
trigger_forecast_webhook(forecast) ==
  [trigger |-> "forecast_updated",
   product_id |-> forecast.product_id,
   predicted_demand |-> forecast.predicted_demand,
   confidence_level |-> forecast.confidence_level,
   trend_direction |-> forecast.trend_direction,
   forecast_period_days |-> forecast.forecast_period_days,
   timestamp |-> forecast.created_date]

\* create_forecast with the bound written <= instead of <.
create_forecast_SevenFails(F, data, t) ==
  IF data.product_id = None \/ data.forecast_period_days = None
  THEN [forecasts |-> F.forecasts, events |-> F.events, code |-> 400]
  ELSE
    LET product_id == data.product_id[1]
        historical == Series(F.history, product_id)
    IN IF Len(historical) <= MinRecords
       THEN [forecasts |-> F.forecasts, events |-> F.events, code |-> 400]
       ELSE
         LET result == generate_demand_forecast(product_id, historical,
                                                data.forecast_period_days[1], t)
         IN The({ [forecasts |-> Put(F.forecasts, "product_id", forecast),
                   events |-> Append(F.events, trigger_forecast_webhook(forecast)),
                   code |-> 201] :
                  forecast \in {NewForecast(data, result, t)} })

\* create_forecast that keeps the forecast a product already has
\* (forecast_data.setdefault instead of the assignment).
create_forecast_KeepsFirst(F, data, t) ==
  IF data.product_id = None \/ data.forecast_period_days = None
  THEN [forecasts |-> F.forecasts, events |-> F.events, code |-> 400]
  ELSE
    LET product_id == data.product_id[1]
        historical == Series(F.history, product_id)
    IN IF Len(historical) < MinRecords
       THEN [forecasts |-> F.forecasts, events |-> F.events, code |-> 400]
       ELSE
         LET result == generate_demand_forecast(product_id, historical,
                                                data.forecast_period_days[1], t)
             forecast == NewForecast(data, result, t)
             stored == IF IndexOf(F.forecasts, "product_id", product_id) = 0
                       THEN Put(F.forecasts, "product_id", forecast)
                       ELSE F.forecasts
         IN [forecasts |-> stored,
             events |-> Append(F.events, trigger_forecast_webhook(forecast)),
             code |-> 201]

\* POST /forecasts on F = [history, forecasts, events]: [forecasts, events, code].
create_forecast(F, data, t) ==
  IF data.product_id = None \/ data.forecast_period_days = None
  THEN [forecasts |-> F.forecasts, events |-> F.events, code |-> 400]
  ELSE
    LET product_id == data.product_id[1]
        historical == Series(F.history, product_id)
    IN IF Len(historical) < MinRecords
       THEN [forecasts |-> F.forecasts, events |-> F.events, code |-> 400]
       ELSE
         LET result == generate_demand_forecast(product_id, historical,
                                                data.forecast_period_days[1], t)
         IN The({ [forecasts |-> Put(F.forecasts, "product_id", forecast),
                   events |-> Append(F.events, trigger_forecast_webhook(forecast)),
                   code |-> 201] :
                  forecast \in {NewForecast(data, result, t)} })

\* ----------------------------------------------------- accuracy tracker
\* The JSON body of POST /accuracy/<product_id>: an object, or null.
AccuracyReq(actual, period_end) ==
  [kind |-> "json", actual_demand |-> actual, period_end_date |-> period_end]

NullAccuracyReq == [kind |-> "null", actual_demand |-> None, period_end_date |-> None]

\* abs(predicted_demand - actual_demand), in hundredths: the difference of the
\* two numbers themselves. The code stores the difference of the doubles
\* unrounded, which is within 1e-12 of it.
ForecastError(predicted_demand, actual_demand) == Abs(predicted_demand - 100 * actual_demand)

\* (error / max(actual_demand, 1)) * 100, in percent.
PercentageError(predicted_demand, actual_demand) ==
  Frac(ForecastError(predicted_demand, actual_demand), Max(actual_demand, 1))

\* The same in doubles: predicted_demand is the float of 2 decimals the
\* forecast holds, actual_demand the whole number of the request.
F64PercentageError(predicted_demand, actual_demand) ==
  LET error == F64Abs(F64Sub(F64Hundredths(predicted_demand), F64Int(actual_demand)))
  IN F64Mul(F64Div(error, F64Int(Max(actual_demand, 1))), F64Int(100))

\* Accuracy without the max(0, ...).
Accuracy_Unclamped(predicted_demand, actual_demand) ==
  LET pe == PercentageError(predicted_demand, actual_demand) IN
  FracAdd(Frac(100, 1), Frac(0 - pe.n, pe.d))

\* max(0, 100 - percentage_error), in percent.
Accuracy(predicted_demand, actual_demand) ==
  LET pe == PercentageError(predicted_demand, actual_demand) IN
  FracMax0(FracAdd(Frac(100, 1), Frac(0 - pe.n, pe.d)))

F64Accuracy(predicted_demand, actual_demand) ==
  F64Max(F64Zero, F64Sub(F64Int(100), F64PercentageError(predicted_demand, actual_demand)))

NoMetrics ==
  [predicted_demand |-> 0, actual_demand |-> 0, forecast_error |-> 0,
   percentage_error |-> 0, accuracy_score |-> 0]

\* update_forecast_accuracy that also overwrites the prediction with the
\* actual demand.
update_forecast_accuracy_Repredicts(forecasts, product_id, data, t) ==
  LET i == IndexOf(forecasts, "product_id", product_id) IN
  IF i = 0 THEN [forecasts |-> forecasts, code |-> 404, metrics |-> NoMetrics]
  ELSE IF data.kind = "null"
  THEN [forecasts |-> forecasts, code |-> 500, metrics |-> NoMetrics]
  ELSE IF data.actual_demand = None \/ data.period_end_date = None
  THEN [forecasts |-> forecasts, code |-> 400, metrics |-> NoMetrics]
  ELSE
    LET forecast == forecasts[i]
        predicted_demand == forecast.predicted_demand
        actual_demand == data.actual_demand[1]
        error == ForecastError(predicted_demand, actual_demand)
        percentage_error == Round2(PercentageError(predicted_demand, actual_demand),
                                   F64PercentageError(predicted_demand, actual_demand))
        accuracy == Round2(Accuracy(predicted_demand, actual_demand),
                           F64Accuracy(predicted_demand, actual_demand))
    IN [forecasts |->
          [forecasts EXCEPT ![i] =
             [@ EXCEPT !.actual_demand = Some(actual_demand),
                       !.predicted_demand = 100 * actual_demand,
                       !.forecast_error = Some(error),
                       !.percentage_error = Some(percentage_error),
                       !.accuracy_score = accuracy,
                       !.accuracy_updated = Some(isoformat(t))]],
        code |-> 200,
        metrics |-> [predicted_demand |-> predicted_demand,
                     actual_demand |-> actual_demand,
                     forecast_error |-> error,
                     percentage_error |-> percentage_error,
                     accuracy_score |-> accuracy]]

\* POST /accuracy/<product_id>: [forecasts, code, metrics].
update_forecast_accuracy(forecasts, product_id, data, t) ==
  LET i == IndexOf(forecasts, "product_id", product_id) IN
  IF i = 0 THEN [forecasts |-> forecasts, code |-> 404, metrics |-> NoMetrics]
  ELSE IF data.kind = "null"
  THEN [forecasts |-> forecasts, code |-> 500, metrics |-> NoMetrics]
  ELSE IF data.actual_demand = None \/ data.period_end_date = None
  THEN [forecasts |-> forecasts, code |-> 400, metrics |-> NoMetrics]
  ELSE
    LET forecast == forecasts[i]
        predicted_demand == forecast.predicted_demand
        actual_demand == data.actual_demand[1]
        error == ForecastError(predicted_demand, actual_demand)
    IN The({ [forecasts |->
                [forecasts EXCEPT ![i] =
                   [@ EXCEPT !.actual_demand = Some(actual_demand),
                             !.forecast_error = Some(error),
                             !.percentage_error = Some(percentage_error),
                             !.accuracy_score = accuracy,
                             !.accuracy_updated = Some(isoformat(t))]],
              code |-> 200,
              metrics |-> [predicted_demand |-> predicted_demand,
                           actual_demand |-> actual_demand,
                           forecast_error |-> error,
                           percentage_error |-> percentage_error,
                           accuracy_score |-> accuracy]] :
             percentage_error \in {Round2(PercentageError(predicted_demand, actual_demand),
                                          F64PercentageError(predicted_demand, actual_demand))},
             accuracy \in {Round2(Accuracy(predicted_demand, actual_demand),
                                  F64Accuracy(predicted_demand, actual_demand))} })

\* ------------------------------------------------ forecasting: inputs
\* A record appended on its own day with the optional keys left out.
Rec(date, demand) ==
  [date |-> date, demand |-> Whole(demand), sales |-> 0, price |-> 0,
   promotions |-> FALSE, added_date |-> isoformat(date * TicksPerDay)]

\* Records on the consecutive days first .. first + Len(demands) - 1.
Run(first, demands) == [k \in DOMAIN demands |-> Rec(first + k - 1, demands[k])]

History(s1, s2) ==
  << [product_id |-> "p1", records |-> s1], [product_id |-> "p2", records |-> s2] >>

\* The series the service holds when a run starts:
\*   - p1 with 7 days of demand 20, p2 with 6 days;
\*   - p1 with 30 days, p2 with 7 records of which the two oldest are the last
\*     two days of the retention window of the day before the run: the next
\*     append of day 0 drops the first of them, one of day 1 both;
\*   - p1 with 7 days whose forecast over 3 days is 39.87, p2 with 14 days
\*     whose forecast for day 0 is 6.175 before it is rounded.
InitialHistories ==
  { History(Run(-7, <<20, 20, 20, 20, 20, 20, 20>>),
            Run(-6, <<5, 6, 7, 5, 6, 7>>)),
    History(Run(-30, [k \in 1..30 |-> 5 + ((k * k) % 7)]),
            Run(-365, <<4, 4>>) \o Run(-5, <<6, 8, 7, 9, 8>>)),
    History(Run(-7, <<13, 13, 13, 13, 13, 14, 14>>),
            Run(-14, <<4, 2, 8, 0, 15, 6, 7, 9, 6, 8, 1, 8, 3, 3>>)) }

\* The bodies of POST /historical: a day older than the whole series of p1, a
\* new day for p2, a day p2 already has a record for, and a body without demand.
HistoryRequests ==
  { HistoryReq(Some("p1"), Some(-40), Some(Whole(9))),
    HistoryReq(Some("p2"), Some(-7), Some(Whole(5))),
    HistoryReq(Some("p2"), Some(-1), Some(Whole(8))),
    HistoryReq(Some("p1"), Some(-2), None) }

\* forecast_period_days is any whole number: the handler tests that the key is
\* there and nothing else, and range() of a number below 1 is empty.
Horizons == {-1, 3, 5}

\* The bodies of POST /forecasts: every horizon for p1, one for p2.
ForecastRequests ==
  { ForecastReq(Some("p1"), Some(n)) : n \in Horizons }
    \cup { ForecastReq(Some("p2"), Some(3)) }

\* The POST /accuracy/<product_id> calls: the product and the body. Against
\* the forecast 39.87 the actual demand 40 gives the percentage error 0.325 and
\* the accuracy 99.675, which the code holds as doubles above the half.
AccuracyRequests ==
  { <<"p1", AccuracyReq(Some(90), Some(0))>>,
    <<"p1", AccuracyReq(Some(0), Some(0))>>,
    <<"p1", AccuracyReq(Some(40), Some(0))>>,
    <<"p2", AccuracyReq(Some(90), Some(0))>>,
    <<"p1", NullAccuracyReq>> }

\* ----------------------------------------------- forecasting: actions
ForecastStores == [history |-> historical_data, forecasts |-> forecast_data,
                   events |-> forecast_events]

ForecastInit ==
  /\ now = 0
  /\ epochMonth \in StartMonths
  /\ reorder_rules = <<>>
  /\ pending_orders = <<>>
  /\ events = <<>>
  /\ nextObj = 0
  /\ last = Call("init", 200, NoKey, NoReq)
  /\ calls = 0
  /\ historical_data \in InitialHistories
  /\ forecast_data = <<>>
  /\ market_trends = <<>>
  /\ forecast_events = <<>>
  /\ flast = FCall("init", 200, None, 0)
  /\ NoRequestInFlight

AddHistorical ==
  \E data \in HistoryRequests :
    \E r \in {add_historical_data(historical_data, data, now)} :
    /\ historical_data' = r.history
    /\ Serve
    /\ flast' = FCall("add_historical", r.code, data.product_id, data.date[1])
    /\ UNCHANGED <<forecast_data, market_trends, forecast_events>>
    /\ UNCHANGED <<now, epochMonth, reorder_rules, pending_orders, events, nextObj, last>>
    /\ UNCHANGED cvars

GenerateForecast ==
  \E data \in ForecastRequests :
    \E r \in {create_forecast(ForecastStores, data, now)} :
    /\ forecast_data' = r.forecasts
    /\ forecast_events' = r.events
    /\ UNCHANGED market_trends
    /\ Serve
    /\ flast' = FCall("create_forecast", r.code, data.product_id, data.forecast_period_days[1])
    /\ UNCHANGED historical_data
    /\ UNCHANGED <<now, epochMonth, reorder_rules, pending_orders, events, nextObj, last>>
    /\ UNCHANGED cvars

ReconcileForecast ==
  \E c \in AccuracyRequests :
    \E r \in {update_forecast_accuracy(forecast_data, c[1], c[2], now)} :
    /\ forecast_data' = r.forecasts
    /\ Serve
    /\ flast' = FCall("update_accuracy", r.code, Some(c[1]), Get(c[2].actual_demand, 0))
    /\ UNCHANGED <<historical_data, market_trends, forecast_events>>
    /\ UNCHANGED <<now, epochMonth, reorder_rules, pending_orders, events, nextObj, last>>
    /\ UNCHANGED cvars

ForecastNext ==
  \/ Tick
  \/ AddHistorical
  \/ GenerateForecast
  \/ ReconcileForecast

ForecastSpec == ForecastInit /\ [][ForecastNext]_vars

\* ------------------------------------ forecast engine over chosen series
\* The engine is a function of the series, the horizon and the reference day:
\* EngineSpec runs the same handlers over one product whose series is drawn
\* from shapes that reach each branch of the engine.

\* A record whose demand is the fraction n / d.
RecQ(date, n, d) == [Rec(date, 0) EXCEPT !.demand = Frac(n, d)]

\* n records on the n days before day 0.
Rising(n) == Run(0 - n, [k \in 1..n |-> 10 + k])
Falling(n) == Run(0 - n, [k \in 1..n |-> 40 - k])
Flat(n) == Run(0 - n, [k \in 1..n |-> 20])

\* 14 days of demand 10 + 1/16, 10 + 2/16, ... and of 10 + 14/16, 10 + 13/16, ...
SlowRise == [k \in 1..14 |-> RecQ(k - 15, 160 + k, 16)]
SlowFall == [k \in 1..14 |-> RecQ(k - 15, 175 - k, 16)]

\* 14 rising days after two days that do not rise.
LateRise == Run(-16, <<50, 3>>) \o Rising(14)

\* 14 days on which nothing was sold on Mondays, and 14 days without sales.
ZeroMondays == Run(-14, [k \in 1..14 |-> IF Weekday(k - 15) = 0 THEN 0 ELSE 7])
NoSales == Run(-14, [k \in 1..14 |-> 0])

\* 14 records none of which is dated on a Monday.
NoMondays == Run(-16, <<6, 9>>) \o Run(-13, <<7, 8, 9, 7, 8, 9>>)
               \o Run(-6, <<7, 8, 9, 7, 8, 9>>)

\* 7 days of demand a and 7 days of demand a + 0.7, and the same backwards: the
\* two means are 0.7 apart and the trend is 0.1, where the double decides. The
\* one the code computes is above 0.1 for a = 10 and below 0.1 for a = 20.
StepUp(a) ==
  [k \in 1..14 |-> RecQ(k - 15, IF k <= 7 THEN 10 * a ELSE 10 * a + 7, 10)]
StepDown(a) ==
  [k \in 1..14 |-> RecQ(k - 15, IF k <= 7 THEN 10 * a + 7 ELSE 10 * a, 10)]

\* 7 days of demand 10, then 10, 10, 11, 11, 11, 11 and 10 + n / d, and the same
\* backwards. With n / d = 19/21 the sums of the two halves are 4.9 + 1/210
\* apart and with 26/29 they are 4.9 - 1/290 apart: the trend is within a
\* thousandth of 0.1 without being 0.1.
NearStepUp(n, d) ==
  Run(-14, <<10, 10, 10, 10, 10, 10, 10, 10, 10, 11, 11, 11, 11>>)
    \o << RecQ(-1, 10 * d + n, d) >>
NearStepDown(n, d) ==
  << RecQ(-14, 10 * d + n, d) >>
    \o Run(-13, <<11, 11, 11, 11, 10, 10, 10, 10, 10, 10, 10, 10, 10>>)

\* 14 days of demand 10.0, 10.1, .., 11.3: the trend is 0.1 again.
TenthADay == [k \in 1..14 |-> RecQ(k - 15, 99 + k, 10)]

\* 14 days whose forecast for day 0 is 6.175: the double is below the half, so
\* the code rounds it to 6.17.
HalfCent == Run(-14, <<4, 2, 8, 0, 15, 6, 7, 9, 6, 8, 1, 8, 3, 3>>)

EngineSeries ==
  { Rising(7), Rising(13), Rising(14), Falling(13), Falling(14), Flat(14),
    Flat(17), Flat(18), Flat(29), Flat(30), Flat(31),
    SlowRise, SlowFall, LateRise, ZeroMondays, NoSales, NoMondays,
    StepUp(10), StepDown(10), StepUp(20), TenthADay, HalfCent,
    NearStepUp(19, 21), NearStepUp(26, 29),
    NearStepDown(19, 21), NearStepDown(26, 29) }

\* POST /historical for today, with a whole and with a fractional demand.
EngineObservations ==
  { HistoryReq(Some("p1"), Some(0), Some(Whole(50))),
    HistoryReq(Some("p1"), Some(0), Some(Frac(1, 2))) }

EngineHorizons == {1, 7}

\* POST /forecasts for the product, over one day and over a week.
EnginePredictions == { ForecastReq(Some("p1"), Some(n)) : n \in EngineHorizons }

EngineInit ==
  /\ now = 0
  /\ epochMonth \in StartMonths
  /\ reorder_rules = <<>>
  /\ pending_orders = <<>>
  /\ events = <<>>
  /\ nextObj = 0
  /\ last = Call("init", 200, NoKey, NoReq)
  /\ calls = 0
  /\ \E s \in EngineSeries : historical_data = << [product_id |-> "p1", records |-> s] >>
  /\ forecast_data = <<>>
  /\ market_trends = <<>>
  /\ forecast_events = <<>>
  /\ flast = FCall("init", 200, None, 0)
  /\ NoRequestInFlight

Observe ==
  \E data \in EngineObservations :
    \E r \in {add_historical_data(historical_data, data, now)} :
    /\ historical_data' = r.history
    /\ Serve
    /\ flast' = FCall("add_historical", r.code, data.product_id, data.date[1])
    /\ UNCHANGED <<forecast_data, market_trends, forecast_events>>
    /\ UNCHANGED <<now, epochMonth, reorder_rules, pending_orders, events, nextObj, last>>
    /\ UNCHANGED cvars

Predict ==
  \E data \in EnginePredictions :
    \E r \in {create_forecast(ForecastStores, data, now)} :
    /\ forecast_data' = r.forecasts
    /\ forecast_events' = r.events
    /\ UNCHANGED market_trends
    /\ Serve
    /\ flast' = FCall("create_forecast", r.code, data.product_id, data.forecast_period_days[1])
    /\ UNCHANGED historical_data
    /\ UNCHANGED <<now, epochMonth, reorder_rules, pending_orders, events, nextObj, last>>
    /\ UNCHANGED cvars

EngineNext ==
  \/ Tick
  \/ Observe
  \/ Predict

EngineSpec == EngineInit /\ [][EngineNext]_vars

\* ------------------------------------------------------------ analytics
\* GET /analytics over the forecast store: the accuracy trend, the average
\* accuracy, the best model and the number of seasonal products. Accuracy
\* scores are in hundredths of a point.

\* sum / divisor as Python computes it for a sum >= 0 and a divisor # 0.
Quotient(sum, divisor) ==
  IF divisor < 0 THEN Frac(0 - sum, 0 - divisor) ELSE Frac(sum, divisor)

\* The same quotient of the doubles of a list of scores.
F64Quotient(scores, divisor) ==
  F64Div(F64Sum(DoublesOfHundredths(scores)), F64Int(divisor))

Scores(fs) == [k \in DOMAIN fs |-> fs[k].accuracy_score]

\* calculate_accuracy_trend(): [raise, trend]; raise is the ZeroDivisionError
\* of the division by min(5, len(recent_forecasts) - 5).
calculate_accuracy_trend(forecasts) ==
  LET recent_forecasts == SelectSeq(forecasts, LAMBDA f : f.accuracy_score > 0)
      n == Len(recent_forecasts)
  IN IF n < 2 THEN [raise |-> FALSE, trend |-> "insufficient_data"]
     ELSE IF Min(5, n - 5) = 0 THEN [raise |-> TRUE, trend |-> "none"]
     ELSE
       LET recent_accuracy == Quotient(SumSeq(Scores(LastN(recent_forecasts, 5))), Min(5, n))
           older_accuracy == Quotient(SumSeq(Scores(Slice(recent_forecasts, 10, 5))),
                                      Min(5, n - 5))
           f_recent_accuracy == F64Quotient(Scores(LastN(recent_forecasts, 5)), Min(5, n))
           f_older_accuracy == F64Quotient(Scores(Slice(recent_forecasts, 10, 5)),
                                           Min(5, n - 5))
       IN IF Exceeds(recent_accuracy, FracAdd(older_accuracy, Whole(500)),
                     f_recent_accuracy, F64Add(f_older_accuracy, F64Int(5)))
          THEN [raise |-> FALSE, trend |-> "improving"]
          ELSE IF Exceeds(FracSub(older_accuracy, Whole(500)), recent_accuracy,
                          F64Sub(f_older_accuracy, F64Int(5)), f_recent_accuracy)
          THEN [raise |-> FALSE, trend |-> "declining"]
          ELSE [raise |-> FALSE, trend |-> "stable"]

\* get_most_accurate_model(): every forecast has the same model_used.
get_most_accurate_model(forecasts) ==
  IF \E i \in DOMAIN forecasts : forecasts[i].accuracy_score > 0
  THEN "moving_average_with_trend" ELSE "no_data"

\* count_seasonal_patterns(): abs(seasonal_factor - 1.0) > 0.1
count_seasonal_patterns(forecasts) ==
  Cardinality({ i \in DOMAIN forecasts :
                  LET seasonal_factor == forecasts[i].seasonal_factor IN
                  Exceeds(Frac(Abs(seasonal_factor - 100), 100), Frac(1, 10),
                          F64Abs(F64Sub(F64Hundredths(seasonal_factor), F64Int(1))),
                          F64Tenth) })

\* --------------------------------------------------------- market trends
\* A JSON value of the body of POST /trends, as far as the handlers tell
\* values apart: null, a number, a string, or a list (an object behaves as a
\* list does: it can neither be a dict key nor be added to a number).
JNull == [kind |-> "null", num |-> Whole(0), str |-> ""]
JNum(x) == [kind |-> "number", num |-> x, str |-> ""]
JStr(s) == [kind |-> "string", num |-> Whole(0), str |-> s]
JList == [kind |-> "list", num |-> Whole(0), str |-> ""]

\* hash(value) succeeds: the value can be the key of a dict.
Hashable(v) == v.kind # "list"

\* The JSON body of POST /trends: an object, every key of which may be
\* absent, or null.
TrendReq(trend_id, category, trend_value, impact_factor) ==
  [kind |-> "json", trend_id |-> trend_id, category |-> category,
   trend_value |-> trend_value, trend_direction |-> None,
   impact_factor |-> impact_factor, source |-> None, valid_until |-> None]

NullTrendReq ==
  [kind |-> "null", trend_id |-> None, category |-> None, trend_value |-> None,
   trend_direction |-> None, impact_factor |-> None, source |-> None,
   valid_until |-> None]

\* The trend dict built by add_market_trend: the values of the body as they
\* came, of whatever type.
NewTrend(data, t) ==
  [trend_id |-> data.trend_id[1],
   category |-> data.category[1],
   trend_value |-> data.trend_value[1],
   trend_direction |-> Get(data.trend_direction, JStr("stable")),
   impact_factor |-> Get(data.impact_factor, JNum(Whole(1))),
   source |-> Get(data.source, JStr("")),
   date_recorded |-> isoformat(t),
   valid_until |-> Get(data.valid_until, JStr(""))]

\* POST /trends: [trends, code]. A null body fails in the test of the first
\* required field and a trend_id that cannot be hashed in the store: both are
\* caught and answered 500. Nothing else of the body is looked at.
add_market_trend(trends, data, t) ==
  IF data.kind = "null" THEN [trends |-> trends, code |-> 500]
  ELSE IF data.trend_id = None \/ data.category = None \/ data.trend_value = None
  THEN [trends |-> trends, code |-> 400]
  ELSE IF ~Hashable(data.trend_id[1]) THEN [trends |-> trends, code |-> 500]
  ELSE [trends |-> Put(trends, "trend_id", NewTrend(data, t)), code |-> 200]

\* The trend summary of GET /analytics: [raise, summary]. raise is the
\* TypeError of a category that cannot be a dict key or of an impact_factor
\* that cannot be added to a number; summary holds for every category the
\* number of its trends and the mean of their impact factors. The mean is the
\* exact quotient: the code computes it in doubles and does not round it.
TrendSummary(trends) ==
  LET In(c) == SelectSeq(trends, LAMBDA trend : trend.category = c) IN
  IF \E i \in DOMAIN trends :
       ~Hashable(trends[i].category) \/ trends[i].impact_factor.kind # "number"
  THEN [raise |-> TRUE, summary |-> {}]
  ELSE [raise |-> FALSE,
        summary |->
          { [category |-> c,
             count |-> Len(In(c)),
             avg_impact |-> FracDiv(FracSum([k \in DOMAIN In(c) |-> In(c)[k].impact_factor.num]),
                                    Whole(Len(In(c))))] :
            c \in { trends[i].category : i \in DOMAIN trends } }]

\* jsonify writes every dict with its keys sorted (the default of Flask, which
\* main.py leaves as it is), and Python orders strings with strings and numbers
\* with numbers only: the summary can be written when its categories are of
\* one kind.
Sortable(summary) == Cardinality({ s.category.kind : s \in summary }) <= 1

\* What GET /analytics answers when an exception is caught.
AnalyticsFailed ==
  [code |-> 500, trend |-> "none", total_forecasts |-> 0, active_forecasts |-> 0,
   average_accuracy |-> 0, model |-> "none", seasonal |-> 0, tracked |-> 0,
   market_trends |-> {}]

\* The response of GET /analytics: 500 when the trend summary raises, when a
\* helper raises, or when the response cannot be written.
get_forecasting_analytics(forecasts, history, trends, t) ==
  LET scored == SelectSeq(forecasts, LAMBDA f : f.accuracy_score > 0)
      avg_accuracy == IF scored = <<>> THEN Whole(0)
                      ELSE Frac(SumSeq(Scores(scored)), 100 * Len(scored))
      f_avg_accuracy == IF scored = <<>> THEN F64Zero
                        ELSE F64Quotient(Scores(scored), Len(scored))
  IN The({ IF trend_summary.raise \/ trend.raise \/ ~Sortable(trend_summary.summary)
           THEN AnalyticsFailed
           ELSE [code |-> 200,
                 trend |-> trend.trend,
                 total_forecasts |-> Len(forecasts),
                 active_forecasts |->
                   Cardinality({ i \in DOMAIN forecasts :
                                   fromisoformat(forecasts[i].valid_until) > t }),
                 average_accuracy |-> Round2(avg_accuracy, f_avg_accuracy),
                 model |-> get_most_accurate_model(forecasts),
                 seasonal |-> count_seasonal_patterns(forecasts),
                 tracked |-> Len(history),
                 market_trends |-> trend_summary.summary] :
           trend_summary \in {TrendSummary(trends)},
           trend \in {calculate_accuracy_trend(forecasts)} })

\* The record of a GET /analytics call and its response.
QueryCall(r) ==
  [op |-> "analytics", code |-> r.code, product_id |-> None, arg |-> 0, response |-> r]

\* The products the service tracks, in the order their first forecast was made.
TrackedProducts == <<"p1", "p2", "p3", "p4", "p5", "p6", "p7", "p8", "p9", "p10", "p11">>

\* Every tracked product has 7 days of demand 20: its forecast over 3 days
\* from a Monday is 60.
TrackedHistory == [k \in DOMAIN TrackedProducts |->
                     [product_id |-> TrackedProducts[k], records |-> Flat(7)]]

\* The forecast of a product made over 3 days at the start of the run and,
\* where actual is a demand (not -1), reconciled with it.
TrackedForecast(product_id, actual) ==
  The({ IF actual = -1 THEN made[1]
        ELSE update_forecast_accuracy(made, product_id,
                                      AccuracyReq(Some(actual), Some(0)), 0).forecasts[1] :
        made \in { create_forecast([history |-> TrackedHistory, forecasts |-> <<>>,
                                    events |-> <<>>],
                                   ForecastReq(Some(product_id), Some(3)), 0).forecasts } })

\* The store after each of the first Len(actuals) products got its forecast.
Tracked(actuals) ==
  [k \in DOMAIN actuals |-> TrackedForecast(TrackedProducts[k], actuals[k])]

\* Actual demands against the prediction of 60: 60 scores 100, 50 scores 80,
\* 100 scores 60, 40 scores 50, 30 scores 0.
TrackedActuals ==
  { <<>>, <<60>>, <<60, -1>>, <<60, 50>>, <<30, 60>>, <<60, 50, 100>>,
    <<60, 50, 100, 40>>, <<60, 50, 100, 40, 60>>, <<60, 50, 100, 40, -1, 60>>,
    <<40, 60, 60, 60, 60, 60>>, <<60, 40, 40, 40, 40, 40>>,
    <<60, 60, 50, 60, 60, 60, 60>>,
    <<40, 40, 40, 40, 40, 60, 60, 60, 60, 60>>,
    <<60, 40, 40, 40, 40, 40, 40, 40, 40, 40, 40>> }

\* The calls that change the store between two queries.
TrackedReconciliations ==
  { <<"p2", AccuracyReq(Some(60), Some(0))>>,
    <<"p5", AccuracyReq(Some(60), Some(0))>>,
    <<"p6", AccuracyReq(Some(40), Some(0))>> }

TrackedPredictions == { ForecastReq(Some("p5"), Some(3)) }

\* The bodies of POST /trends: two trends of one category (impact factors 1,
\* by default, and 2); a trend whose impact_factor is a text and one whose
\* category is a list, which the handler stores as they are; a trend whose
\* category is null, next to one of a category with a name; a body without
\* category, a null body, and a trend_id that is a list.
TrendRequests ==
  { TrendReq(Some(JStr("t1")), Some(JStr("c")), Some(JNum(Whole(1))), None),
    TrendReq(Some(JStr("t2")), Some(JStr("c")), Some(JNum(Whole(1))), Some(JNum(Whole(2)))),
    TrendReq(Some(JStr("t1")), Some(JStr("c")), Some(JNum(Whole(1))), Some(JStr("high"))),
    TrendReq(Some(JStr("t2")), Some(JList), Some(JNum(Whole(1))), None),
    TrendReq(Some(JStr("t2")), Some(JNull), Some(JNum(Whole(1))), None),
    TrendReq(Some(JStr("t1")), None, Some(JNum(Whole(1))), None),
    TrendReq(Some(JList), Some(JStr("c")), Some(JNum(Whole(1))), None),
    NullTrendReq }

AnalyticsInit ==
  /\ now = 0
  /\ epochMonth \in StartMonths
  /\ reorder_rules = <<>>
  /\ pending_orders = <<>>
  /\ events = <<>>
  /\ nextObj = 0
  /\ last = Call("init", 200, NoKey, NoReq)
  /\ calls = 0
  /\ historical_data = TrackedHistory
  /\ \E a \in TrackedActuals : forecast_data = Tracked(a)
  /\ market_trends = <<>>
  /\ forecast_events = <<>>
  /\ flast = FCall("init", 200, None, 0)
  /\ NoRequestInFlight

AddTrend ==
  \E data \in TrendRequests :
    \E r \in {add_market_trend(market_trends, data, now)} :
    /\ market_trends' = r.trends
    /\ Serve
    /\ flast' = FCall("add_trend", r.code, None, 0)
    /\ UNCHANGED <<historical_data, forecast_data, forecast_events>>
    /\ UNCHANGED <<now, epochMonth, reorder_rules, pending_orders, events, nextObj, last>>
    /\ UNCHANGED cvars

Query ==
  \E r \in {get_forecasting_analytics(forecast_data, historical_data, market_trends, now)} :
  /\ Serve
  /\ flast' = QueryCall(r)
  /\ UNCHANGED <<historical_data, forecast_data, market_trends, forecast_events>>
  /\ UNCHANGED <<now, epochMonth, reorder_rules, pending_orders, events, nextObj, last>>
  /\ UNCHANGED cvars

Reconcile ==
  \E c \in TrackedReconciliations :
    \E r \in {update_forecast_accuracy(forecast_data, c[1], c[2], now)} :
    /\ forecast_data' = r.forecasts
    /\ Serve
    /\ flast' = FCall("update_accuracy", r.code, Some(c[1]), Get(c[2].actual_demand, 0))
    /\ UNCHANGED <<historical_data, market_trends, forecast_events>>
    /\ UNCHANGED <<now, epochMonth, reorder_rules, pending_orders, events, nextObj, last>>
    /\ UNCHANGED cvars

Repredict ==
  \E data \in TrackedPredictions :
    \E r \in {create_forecast(ForecastStores, data, now)} :
    /\ forecast_data' = r.forecasts
    /\ forecast_events' = r.events
    /\ UNCHANGED market_trends
    /\ Serve
    /\ flast' = FCall("create_forecast", r.code, data.product_id, data.forecast_period_days[1])
    /\ UNCHANGED historical_data
    /\ UNCHANGED <<now, epochMonth, reorder_rules, pending_orders, events, nextObj, last>>
    /\ UNCHANGED cvars

AnalyticsNext ==
  \/ Tick
  \/ AddTrend
  \/ Query
  \/ Reconcile
  \/ Repredict

AnalyticsSpec == AnalyticsInit /\ [][AnalyticsNext]_vars

\* ================================== check-triggers requests in parallel
\* The development server serves each request in its own thread, and the
\* handler takes no lock: between two statements of one request, and between
\* a reading of the clock and the store of what was read, another request may
\* run and the clock may move on. One request is the loop of
\* check_reorder_triggers cut at its readings of the clock and at its reads
\* and writes of the shared rule, order store and order dict:
\*   loop      -> the condition of the rule at position i is evaluated
\*   create    -> the quantity is computed and create_reorder reads the clock
\*                for the order id (line 373)
\*   created   -> the clock is read for created_date (394)
\*   delivery  -> the clock is read for expected_delivery (395)
\*   store     -> the order dict is put into pending_orders (399)
\*   send      -> order['status'] is written (411)
\*   sent      -> the clock is read for sent_date (412)
\*   sentdate  -> order['sent_date'] is written (412)
\*   webhook   -> trigger_reorder_webhook builds its payload (404); the order
\*                is returned and appended to the result (221-222)
\*   stamp     -> the clock is read for last_triggered (225)
\*   stamping  -> rule['last_triggered'] is written (225)
\*   read      -> rule['total_triggers'] is read for the += 1 (226)
\*   write     -> the sum is written back (226)
\* and done when the loop is over or an exception ended it. The evaluation of
\* a condition stays one step: of what it reads, requests of this kind write
\* last_triggered only, each request once per rule, and a time_based rule
\* reads the clock only after it found a last_triggered, that is after the
\* other request has written its own.

\* StampRule that leaves last_triggered as it is.
StampRule_Never(rules, i, t) == rules

\* rule['last_triggered'] = datetime.utcnow().isoformat()
StampRule(rules, i, t) == [rules EXCEPT ![i].last_triggered = Some(isoformat(t))]

\* rule['total_triggers'] += 1, the write: the value read, plus one.
StoreCount(rules, i, count) == [rules EXCEPT ![i].total_triggers = count + 1]

\* A rule registered n ticks before the run, that has not fired yet.
RaceRule(n, p, ty, tv) ==
  NewRule(Req(Some(p), Some(ty), Some(NUM(tv)), Some(5), None, None, None, None), 0 - n)

\* The registries the parallel requests run over.
RaceRegistries ==
  { << RaceRule(1, "p2", "time_based", 1) >>,
    << RaceRule(2, "p1", "threshold", 10), RaceRule(1, "p2", "time_based", 1) >> }

\* The bodies the parallel requests carry.
RaceSnapshots ==
  { Inventory(Some(Entry(Some(8), None)), Some(Entry(Some(8), None))),
    Inventory(Some(Entry(Some(12), None)), Some(Entry(Some(8), None))) }

InFlight(c) == pc[c] \notin {"idle", "done"}

RaceInit ==
  /\ now = 0
  /\ epochMonth \in StartMonths
  /\ reorder_rules \in RaceRegistries
  /\ pending_orders = <<>>
  /\ events = <<>>
  /\ nextObj = 0
  /\ last = Call("init", 200, NoKey, NoReq)
  /\ calls = 0
  /\ ForecastingIdle
  /\ NoRequestInFlight

\* What a step of a request leaves alone besides the reorder stores it names.
RaceFrame == UNCHANGED <<now, epochMonth, last, calls, fvars>>

\* The request arrives: get_json, inventory_data, the loop starts.
Begin(c) ==
  /\ pc[c] = "idle"
  /\ \E data \in RaceSnapshots :
       LET others == { d \in Requests \ {c} : InFlight(d) } IN
       frame' = [d \in Requests |->
                   IF d = c THEN [IdleFrame EXCEPT !.data = data, !.i = 1,
                                                   !.overlapped = others # {}]
                   ELSE IF d \in others THEN [frame[d] EXCEPT !.overlapped = TRUE]
                   ELSE frame[d]]
  /\ pc' = [pc EXCEPT ![c] = "loop"]
  /\ UNCHANGED <<reorder_rules, pending_orders, events, nextObj>>
  /\ RaceFrame

\* The head of the loop and the if / elif chain for the rule at position i.
Decide(c) ==
  /\ pc[c] = "loop"
  /\ LET i == frame[c].i IN
     IF i > Len(reorder_rules)
     THEN /\ pc' = [pc EXCEPT ![c] = "done"]
          /\ frame' = frame
     ELSE LET rule == reorder_rules[i]
              d == ShouldTrigger(rule, frame[c].data.inventory_data, now)
          IN IF rule.status # "active" \/ (~d.raise /\ ~d.fire)
             THEN /\ pc' = pc
                  /\ frame' = [frame EXCEPT ![c].i = i + 1]
             ELSE IF d.raise
             THEN /\ pc' = [pc EXCEPT ![c] = "done"]
                  /\ frame' = [frame EXCEPT ![c].code = 500]
             ELSE /\ pc' = [pc EXCEPT ![c] = "create"]
                  /\ frame' = [frame EXCEPT ![c].reason = d.reason]
  /\ UNCHANGED <<reorder_rules, pending_orders, events, nextObj>>
  /\ RaceFrame

\* pending_orders[order_id] = order
StoreOrder(orders, order) == Put(orders, "order_id", order)

\* A write into the order dict a request holds: the store shows it where it
\* still holds that dict, and not where another order has taken its id.
WriteStored(orders, order) ==
  [k \in DOMAIN orders |-> IF orders[k].obj = order.obj THEN order ELSE orders[k]]

\* reorder_qty, and the first statement of create_reorder: the order id is
\* the clock reading of this moment. The frame holds the order dict under
\* construction: until its two dates have been read, their places hold the
\* reading of the order id.
Create(c) ==
  /\ pc[c] = "create"
  /\ LET rule == reorder_rules[frame[c].i]
         order == NewOrder(rule, ReorderQuantity(rule, MonthAt(epochMonth, now)),
                           frame[c].reason, now, nextObj + 1)
     IN /\ frame' = [frame EXCEPT ![c].order = Some(order)]
        /\ nextObj' = nextObj + 1
  /\ pc' = [pc EXCEPT ![c] = "created"]
  /\ UNCHANGED <<reorder_rules, pending_orders, events>>
  /\ RaceFrame

\* 'created_date': datetime.utcnow().isoformat()
ReadCreated(c) ==
  /\ pc[c] = "created"
  /\ frame' = [frame EXCEPT ![c].order = Some([@[1] EXCEPT !.created_date = isoformat(now)])]
  /\ pc' = [pc EXCEPT ![c] = "delivery"]
  /\ UNCHANGED <<reorder_rules, pending_orders, events, nextObj>>
  /\ RaceFrame

\* 'expected_delivery': (datetime.utcnow() + timedelta(days=lead_time_days)).isoformat()
ReadDelivery(c) ==
  /\ pc[c] = "delivery"
  /\ LET rule == reorder_rules[frame[c].i]
         due == now + Get(rule.lead_time_days, DefaultLeadTimeDays) * TicksPerDay
     IN frame' = [frame EXCEPT ![c].order = Some([@[1] EXCEPT !.expected_delivery = isoformat(due)])]
  /\ pc' = [pc EXCEPT ![c] = "store"]
  /\ UNCHANGED <<reorder_rules, pending_orders, events, nextObj>>
  /\ RaceFrame

\* The order dict is put into pending_orders; an order that waits for
\* approval is returned and appended to the result.
Store(c) ==
  /\ pc[c] = "store"
  /\ LET order == frame[c].order[1]
     IN /\ pending_orders' = StoreOrder(pending_orders, order)
        /\ IF order.status = "approved"
           THEN /\ frame' = frame
                /\ pc' = [pc EXCEPT ![c] = "send"]
           ELSE /\ frame' = [frame EXCEPT ![c].order = None,
                                          ![c].triggered = Append(@, order)]
                /\ pc' = [pc EXCEPT ![c] = "stamp"]
  /\ UNCHANGED <<reorder_rules, events, nextObj>>
  /\ RaceFrame

\* send_order_to_supplier, its first statement: the status is written into
\* the order dict the request holds.
SendStatus(c) ==
  /\ pc[c] = "send"
  /\ LET order == SetStatusSent(frame[c].order[1])
     IN /\ pending_orders' = WriteStored(pending_orders, order)
        /\ frame' = [frame EXCEPT ![c].order = Some(order)]
  /\ pc' = [pc EXCEPT ![c] = "sent"]
  /\ UNCHANGED <<reorder_rules, events, nextObj>>
  /\ RaceFrame

\* Its second statement, the right-hand side: the clock is read.
ReadSent(c) ==
  /\ pc[c] = "sent"
  /\ frame' = [frame EXCEPT ![c].clock = Some(now)]
  /\ pc' = [pc EXCEPT ![c] = "sentdate"]
  /\ UNCHANGED <<reorder_rules, pending_orders, events, nextObj>>
  /\ RaceFrame

\* Its second statement, the store: sent_date is written into the order dict.
WriteSent(c) ==
  /\ pc[c] = "sentdate"
  /\ LET order == SetSentDate(frame[c].order[1], frame[c].clock[1])
     IN /\ pending_orders' = WriteStored(pending_orders, order)
        /\ frame' = [frame EXCEPT ![c].order = Some(order), ![c].clock = None]
  /\ pc' = [pc EXCEPT ![c] = "webhook"]
  /\ UNCHANGED <<reorder_rules, events, nextObj>>
  /\ RaceFrame

\* trigger_reorder_webhook on the order dict the request holds; the order is
\* returned and appended to the result.
Webhook(c) ==
  /\ pc[c] = "webhook"
  /\ LET order == frame[c].order[1]
     IN /\ events' = Append(events, trigger_reorder_webhook(order))
        /\ frame' = [frame EXCEPT ![c].order = None,
                                  ![c].triggered = Append(@, order)]
  /\ pc' = [pc EXCEPT ![c] = "stamp"]
  /\ UNCHANGED <<reorder_rules, pending_orders, nextObj>>
  /\ RaceFrame

\* rule['last_triggered'] = datetime.utcnow().isoformat(), the right-hand
\* side: the clock is read.
ReadStamp(c) ==
  /\ pc[c] = "stamp"
  /\ frame' = [frame EXCEPT ![c].clock = Some(now)]
  /\ pc' = [pc EXCEPT ![c] = "stamping"]
  /\ UNCHANGED <<reorder_rules, pending_orders, events, nextObj>>
  /\ RaceFrame

\* The store of what was read into rule['last_triggered'].
Stamp(c) ==
  /\ pc[c] = "stamping"
  /\ reorder_rules' = StampRule(reorder_rules, frame[c].i, frame[c].clock[1])
  /\ frame' = [frame EXCEPT ![c].clock = None]
  /\ pc' = [pc EXCEPT ![c] = "read"]
  /\ UNCHANGED <<pending_orders, events, nextObj>>
  /\ RaceFrame

ReadCount(c) ==
  /\ pc[c] = "read"
  /\ frame' = [frame EXCEPT ![c].count = reorder_rules[frame[c].i].total_triggers]
  /\ pc' = [pc EXCEPT ![c] = "write"]
  /\ UNCHANGED <<reorder_rules, pending_orders, events, nextObj>>
  /\ RaceFrame

WriteCount(c) ==
  /\ pc[c] = "write"
  /\ reorder_rules' = StoreCount(reorder_rules, frame[c].i, frame[c].count)
  /\ frame' = [frame EXCEPT ![c].i = @ + 1]
  /\ pc' = [pc EXCEPT ![c] = "loop"]
  /\ UNCHANGED <<pending_orders, events, nextObj>>
  /\ RaceFrame

RaceNext ==
  \/ Tick
  \/ \E c \in Requests : Begin(c)
  \/ \E c \in Requests : Decide(c)
  \/ \E c \in Requests : Create(c)
  \/ \E c \in Requests : ReadCreated(c)
  \/ \E c \in Requests : ReadDelivery(c)
  \/ \E c \in Requests : Store(c)
  \/ \E c \in Requests : SendStatus(c)
  \/ \E c \in Requests : ReadSent(c)
  \/ \E c \in Requests : WriteSent(c)
  \/ \E c \in Requests : Webhook(c)
  \/ \E c \in Requests : ReadStamp(c)
  \/ \E c \in Requests : Stamp(c)
  \/ \E c \in Requests : ReadCount(c)
  \/ \E c \in Requests : WriteCount(c)

RaceSpec == RaceInit /\ [][RaceNext]_vars


\* ---------------------------------------------------------- properties
OrderSet(orders) == { orders[i] : i \in DOMAIN orders }

\* The step serves a call of handler op (last' describes it).
Served(op) == calls' = calls + 1 /\ last'.op = op

\* The orders the step created: the order dicts allocated in it that are in
\* the store afterwards.
Created == { p \in OrderSet(pending_orders') : p.obj > nextObj }

\* pending_approval -> approved -> sent_to_supplier, pending_approval -> rejected,
\* in any number of moves.
Forward(a, b) ==
  \/ a = b
  \/ a = "pending_approval" /\ b \in {"approved", "sent_to_supplier", "rejected"}
  \/ a = "approved" /\ b = "sent_to_supplier"

\* C1: across CreateOrder, EvaluateTriggers, ApproveOrder and RejectOrder (and
\* every other call) the status of each order only moves forward along
\* pending_approval -> approved -> sent_to_supplier or pending_approval ->
\* rejected: nothing leaves rejected or sent_to_supplier, nothing returns to
\* pending_approval. An order is the dict create_reorder allocated (obj).
C1_StatusForward ==
  [][\A o \in OrderSet(pending_orders), p \in OrderSet(pending_orders') :
       o.obj = p.obj => Forward(o.status, p.status)]_vars

\* An approved and sent order on which a reject call has just failed.
C1_Witness ==
  \E o \in OrderSet(pending_orders) :
    /\ o.status = "sent_to_supplier" /\ o.approved_date # None
    /\ last.op = "reject" /\ last.key = o.order_id /\ last.code = 400

\* The rule an order of the step was built from: a registry rule, or a rule
\* dict passed by a caller of create_reorder.
RuleSources == OrderSet(reorder_rules) \cup DirectRules

\* C2: an order built from a rule with approval_required false and
\* quantity * unit_cost <= approval_threshold is sent_to_supplier when
\* create_reorder returns, with estimated_cost = quantity * unit_cost, and no
\* order that is not pending_approval ever becomes pending_approval (so such an
\* order is in pending_approval in no state).
C2_NoApprovalNeeded ==
  [][/\ \A p \in Created, rule \in RuleSources :
          ( /\ p.rule_id = rule.rule_id
            /\ ~Get(rule.approval_required, FALSE)
            /\ p.quantity * Get(rule.unit_cost, DefaultUnitCost)
                 <= Get(rule.approval_threshold, DefaultApprovalThreshold) )
          => /\ p.status = "sent_to_supplier"
             /\ p.estimated_cost = p.quantity * Get(rule.unit_cost, DefaultUnitCost)
     /\ \A o \in OrderSet(pending_orders), p \in OrderSet(pending_orders') :
          (o.obj = p.obj /\ o.status # "pending_approval")
          => p.status # "pending_approval"]_vars

\* The example of the claim: unit cost 10, quantity 5, cost 50, sent directly;
\* and the boundary, cost 50 against a threshold of 50.
C2_Witness ==
  /\ last.op = "create_reorder"
  /\ \E o \in OrderSet(pending_orders) :
       /\ o.rule_id = <<"rule", -1>> /\ o.quantity = 5 /\ o.estimated_cost = 50
       /\ o.status = "sent_to_supplier"
  /\ \E o \in OrderSet(pending_orders) :
       /\ o.rule_id = <<"rule", -2>> /\ o.quantity = 5 /\ o.estimated_cost = 50
       /\ o.status = "sent_to_supplier"

\* C3: a rule registered by POST /rules with unit cost u, approval_required
\* false and approval threshold t yields orders with estimated_cost = q * u, in
\* pending_approval whenever q * u > t. Stated for the orders built from the
\* rule by the call that follows its registration.
C3_RegisteredUnitCost ==
  [][( /\ last.op = "create_rule" /\ last.code = 201
       /\ last.req.unit_cost # None
       /\ ~Get(last.req.approval_required, FALSE)
       /\ (Served("check_triggers") \/ Served("trigger")) )
     => \A p \in Created :
          p.rule_id = last.key
          => LET cost == p.quantity * last.req.unit_cost[1] IN
             /\ p.estimated_cost = cost
             /\ cost > Get(last.req.approval_threshold, DefaultApprovalThreshold)
                  => p.status = "pending_approval"]_vars

\* C4: ApproveOrder on an order that is not pending_approval fails with
\* NotPendingApproval (400) and leaves the order store unchanged; ApproveOrder
\* on an order in pending_approval succeeds and leaves it sent_to_supplier.
C4_ApproveGuard ==
  [][Served("approve") =>
       LET i == IndexOf(pending_orders, "order_id", last'.key) IN
       i # 0 =>
         IF pending_orders[i].status # "pending_approval"
         THEN last'.code = 400 /\ pending_orders' = pending_orders
         ELSE last'.code = 200 /\ pending_orders'[i].status = "sent_to_supplier"]_vars

\* C5: a rejected order stays as it is in every later state, every later
\* ApproveOrder and RejectOrder on it fails with NotPendingApproval (400), it is
\* never sent and no order-generated event exists for it.
C5_RejectedStep ==
  \A o \in OrderSet(pending_orders) :
    o.status = "rejected" =>
      /\ \A p \in OrderSet(pending_orders') : p.obj = o.obj => p = o
      /\ \A k \in DOMAIN events' : events'[k].obj # o.obj
      /\ ((Served("approve") \/ Served("reject")) /\ last'.key = o.order_id)
           => last'.code = 400

C5_RejectedNoEvent ==
  \A o \in OrderSet(pending_orders) :
    o.status = "rejected" => \A k \in DOMAIN events : events[k].obj # o.obj

C5_RejectedTerminal == []C5_RejectedNoEvent /\ [][C5_RejectedStep]_vars

\* An order rejected by a successful RejectOrder on which ApproveOrder has
\* just failed.
C5_Witness ==
  \E o \in OrderSet(pending_orders) :
    /\ o.status = "rejected" /\ o.rejected_by # None
    /\ last.op = "approve" /\ last.key = o.order_id /\ last.code = 400

\* C6: ApproveOrder and RejectOrder are all-or-nothing: when the call returns
\* an error (404, 400, or 500 for a body that cannot be read) the order store
\* and the emitted events are as before the call.
C6_ApproveRejectAtomic ==
  [][((Served("approve") \/ Served("reject")) /\ last'.code # 200)
       => pending_orders' = pending_orders /\ events' = events]_vars

\* C7: EvaluateTriggers is all-or-nothing: when the call fails (500) no order
\* was added and no rule's last_triggered or trigger count changed.
C7_EvaluateAtomic ==
  [][(Served("check_triggers") /\ last'.code # 200)
       => /\ pending_orders' = pending_orders
          /\ reorder_rules' = reorder_rules
          /\ events' = events]_vars

\* The clock schedules of one check-triggers call over the registry.
Schedules == [DOMAIN reorder_rules -> {0, 1}]

\* The rule at position i fired in the call with result r.
FiredIn(r, i) == r.rules[i].total_triggers = reorder_rules[i].total_triggers + 1

\* The orders the call with result r returned for the rule with this id.
TriggeredFor(r, rule_id) ==
  { r.triggered[k] : k \in { j \in DOMAIN r.triggered : r.triggered[j].rule_id = rule_id } }

\* The reason text has the value n formatted into it.
Mentions(reason, n) == \E k \in DOMAIN reason.nums : reason.nums[k] = n

\* C8: in a successful EvaluateTriggers call an active threshold rule fires if
\* and only if the snapshot's current_stock for its product is <= its
\* trigger_value, and the reason of its order mentions both values.
C8_ThresholdFires ==
  \A data \in Snapshots, adv \in Schedules :
    LET r == check_reorder_triggers(Stores, data, now, adv, epochMonth) IN
    (data.kind = "json" /\ r.code = 200) =>
      \A i \in DOMAIN reorder_rules :
        LET rule == reorder_rules[i]
            entry == data.inventory_data[rule.product_id]
        IN ( /\ rule.status = "active" /\ rule.trigger_type = "threshold"
             /\ entry # None /\ entry[1].current_stock # None )
           => LET stock == entry[1].current_stock[1] IN
              /\ FiredIn(r, i) <=> stock <= rule.trigger_value.n
              /\ FiredIn(r, i) =>
                   \E o \in TriggeredFor(r, rule.rule_id) :
                     /\ Mentions(o.trigger_reason, stock)
                     /\ Mentions(o.trigger_reason, rule.trigger_value.n)
              /\ ~FiredIn(r, i) => TriggeredFor(r, rule.rule_id) = {}

\* A threshold rule has fired at equality (stock 10, threshold 10).
C8_Witness ==
  /\ last.op = "check_triggers" /\ last.code = 200
  /\ \E o \in OrderSet(pending_orders) :
       /\ o.trigger_reason.text = "Stock level ({}) below threshold ({})"
       /\ o.trigger_reason.nums = <<10, 10>>

\* C9: in a successful EvaluateTriggers call an active time_based rule fires
\* if it was never triggered; otherwise it fires when the whole days since
\* last_triggered are >= trigger_value at the start of the call, only if they
\* are at the moment it is stamped, and, for trigger_value >= 1, not when the
\* call ends less than trigger_value days after last_triggered. A rule that
\* does not fire is unchanged.
C9_CadenceStep ==
  (Served("check_triggers") /\ last'.code = 200) =>
    \A i \in DOMAIN reorder_rules :
      LET rule == reorder_rules[i]
          after == reorder_rules'[i]
          fired == after.total_triggers = rule.total_triggers + 1
      IN (rule.status = "active" /\ rule.trigger_type = "time_based") =>
           /\ rule.last_triggered = None => fired
           /\ (rule.last_triggered # None /\ rule.trigger_value.num) =>
                LET t0 == fromisoformat(rule.last_triggered[1]) IN
                /\ DaysBetween(now, t0) >= rule.trigger_value.n => fired
                /\ fired => DaysBetween(fromisoformat(after.last_triggered[1]), t0)
                              >= rule.trigger_value.n
                /\ ( /\ rule.trigger_value.n >= 1
                     /\ now' - t0 < rule.trigger_value.n * TicksPerDay ) => ~fired
           /\ ~fired => after = rule

C9_Cadence == [][C9_CadenceStep]_vars

\* A time_based rule with trigger_value 1 that has fired twice, a day apart.
C9_Witness ==
  /\ last.op = "check_triggers" /\ last.code = 200
  /\ \E i \in DOMAIN reorder_rules :
       /\ reorder_rules[i].trigger_type = "time_based"
       /\ reorder_rules[i].trigger_value = NUM(1)
       /\ reorder_rules[i].total_triggers = 2

\* C10: in a successful EvaluateTriggers call an active demand_forecast rule
\* fires if and only if the snapshot entry of its product carries a forecast
\* and current_stock is below its predicted demand; without a forecast it does
\* not fire, whatever current_stock is.
C10_ForecastFires ==
  \A data \in Snapshots, adv \in Schedules :
    LET r == check_reorder_triggers(Stores, data, now, adv, epochMonth) IN
    (data.kind = "json" /\ r.code = 200) =>
      \A i \in DOMAIN reorder_rules :
        LET rule == reorder_rules[i]
            entry == data.inventory_data[rule.product_id]
            hasForecast == entry # None /\ entry[1].demand_forecast # None
        IN (rule.status = "active" /\ rule.trigger_type = "demand_forecast")
           => ( FiredIn(r, i) <=>
                  /\ hasForecast
                  /\ CurrentStock(data.inventory_data, rule.product_id)
                       < PredictedDemand(data.inventory_data, rule.product_id) )

\* The positions in the result list of a call that hold an order of this rule.
ResultPositions(r, rule_id) ==
  { k \in DOMAIN r.triggered : r.triggered[k].rule_id = rule_id }

\* The tick at which the iteration for the rule at position i reads the clock.
ClockAt(adv, i) == now + SumSeq(SubSeq(adv, 1, i))

\* C11: in one EvaluateTriggers call, failed or not, every rule yields at most
\* one order in the result and an inactive rule none; a rule with an order in
\* the result has total_triggers increased by exactly 1 and last_triggered
\* stamped with the time of its evaluation; a rule without one is unchanged;
\* the orders of the result are distinct order objects, one per fired rule.
C11_OncePerCall ==
  \A data \in Snapshots, adv \in Schedules :
    LET r == check_reorder_triggers(Stores, data, now, adv, epochMonth) IN
    /\ Len(r.rules) = Len(reorder_rules)
    /\ \A i \in DOMAIN reorder_rules :
         LET rule == reorder_rules[i]
             after == r.rules[i]
             n == Cardinality(ResultPositions(r, rule.rule_id))
         IN /\ n <= 1
            /\ rule.status # "active" => n = 0
            /\ n = 1 => /\ after.total_triggers = rule.total_triggers + 1
                        /\ after.last_triggered = Some(isoformat(ClockAt(adv, i)))
            /\ n = 0 => after = rule
    /\ \A j, k \in DOMAIN r.triggered :
         r.triggered[j].obj = r.triggered[k].obj => j = k

\* An EvaluateTriggers call has fired two rules of the same product: both have
\* their first trigger counted and stamped by the call.
C11_Witness ==
  /\ last.op = "check_triggers" /\ last.code = 200
  /\ \E i, j \in DOMAIN reorder_rules :
       /\ i # j
       /\ reorder_rules[i].product_id = reorder_rules[j].product_id
       /\ reorder_rules[i].total_triggers = 1
       /\ reorder_rules[j].total_triggers = 1
       /\ reorder_rules[i].last_triggered # None
       /\ reorder_rules[j].last_triggered # None

\* Calendar months.
Months == 1..12

\* n / 2 rounded to the nearest integer, a half going up, resp. to the even side.
HalfUp(n) == (n + 1) \div 2
HalfEven(n) == IF n % 2 = 0 \/ (n \div 2) % 2 = 0 THEN n \div 2 ELSE n \div 2 + 1

\* Every order returned by a check-triggers call over the current registry, in
\* a run that started in any month, has the quantity q(rule, seasonal), where
\* seasonal tells whether the rule has seasonal_adjustment set and the month of
\* its evaluation is November, December or January.
QuantityRule(q(_, _)) ==
  \A data \in Snapshots, adv \in Schedules, m0 \in Months :
    LET r == check_reorder_triggers(Stores, data, now, adv, m0) IN
    \A i \in DOMAIN reorder_rules :
      \A k \in ResultPositions(r, reorder_rules[i].rule_id) :
        LET rule == reorder_rules[i]
            m == MonthAt(m0, ClockAt(adv, i))
        IN r.triggered[k].quantity =
             q(rule, Get(rule.seasonal_adjustment, FALSE) /\ m \in {11, 12, 1})

NearestUp(rule, seasonal) ==
  IF seasonal THEN HalfUp(3 * rule.reorder_quantity) ELSE rule.reorder_quantity

NearestEven(rule, seasonal) ==
  IF seasonal THEN HalfEven(3 * rule.reorder_quantity) ELSE rule.reorder_quantity

Truncated(rule, seasonal) ==
  IF ~seasonal THEN rule.reorder_quantity
  ELSE IF rule.reorder_quantity >= 0 THEN (3 * rule.reorder_quantity) \div 2
  ELSE 0 - ((0 - 3 * rule.reorder_quantity) \div 2)

\* C12 as stated: a seasonal rule firing in November, December or January
\* orders 1.5 * reorder_quantity rounded to the nearest integer (a half going
\* up or to the even side); every other firing orders exactly reorder_quantity.
C12_SeasonalNearest == QuantityRule(NearestUp) \/ QuantityRule(NearestEven)

\* C12, amended: at all times, a seasonal rule firing in November, December or
\* January orders 1.5 * reorder_quantity with the fraction cut off (5 gives 7); every
\* other firing orders exactly reorder_quantity.
C12_SeasonalTruncated == []QuantityRule(Truncated)

\* A seasonal rule with reorder_quantity 5 has fired in November: its order is
\* for 7 units.
C12_Witness ==
  /\ last.op = "check_triggers" /\ last.code = 200
  /\ MonthAt(epochMonth, now) = 11
  /\ \E i \in DOMAIN reorder_rules, o \in OrderSet(pending_orders) :
       /\ reorder_rules[i].seasonal_adjustment = Some(TRUE)
       /\ reorder_rules[i].reorder_quantity = 5
       /\ o.rule_id = reorder_rules[i].rule_id
       /\ o.created_date = reorder_rules[i].last_triggered[1]
       /\ o.quantity = 7

\* The step serves a call of the forecasting handler op (flast' describes it).
FServed(op) == calls' = calls + 1 /\ flast'.op = op

ForecastFor(forecasts, product_id) ==
  { forecasts[i] : i \in { j \in DOMAIN forecasts : forecasts[j].product_id = product_id } }

\* C13: a GenerateForecast call answers InsufficientData (400) exactly when the
\* product's series has fewer than 7 records and succeeds (201) from 7 records
\* on; a call that answers InsufficientData leaves the forecast store as it
\* was and emits no forecast-updated event.
C13_InsufficientDataStep ==
  FServed("create_forecast") =>
    LET n == Len(Series(historical_data, flast'.product_id[1])) IN
    /\ flast'.code = 400 <=> n < 7
    /\ flast'.code = 201 <=> n >= 7
    /\ flast'.code = 400 => /\ forecast_data' = forecast_data
                            /\ forecast_events' = forecast_events

C13_InsufficientData == [][C13_InsufficientDataStep]_vars

\* GenerateForecast has answered InsufficientData for a product whose series
\* has 6 records, and the forecast made earlier from 7 records is still stored.
C13_Witness ==
  /\ flast.op = "create_forecast" /\ flast.code = 400
  /\ Len(Series(historical_data, flast.product_id[1])) = 6
  /\ ForecastFor(forecast_data, flast.product_id[1]) # {}
  /\ Len(forecast_events) = 1

\* A forecast without what the accuracy tracker attaches to it.
AsGenerated(f) ==
  [f EXCEPT !.actual_demand = None, !.forecast_error = None,
            !.percentage_error = None, !.accuracy_score = 0,
            !.accuracy_updated = None]

\* C14: the forecast store never holds two forecasts of one product.
C14_OnePerProduct ==
  \A i, j \in DOMAIN forecast_data :
    forecast_data[i].product_id = forecast_data[j].product_id => i = j

\* C14: no step removes a product's forecast; a successful GenerateForecast
\* puts the forecast it built from the product's series in the product's place
\* and leaves the other forecasts alone; every other step keeps, for every
\* product, the forecast as it was generated.
C14_LatestStep ==
  /\ \A q \in Products :
       ForecastFor(forecast_data, q) # {} => ForecastFor(forecast_data', q) # {}
  /\ IF FServed("create_forecast") /\ flast'.code = 201
     THEN LET data == ForecastReq(flast'.product_id, Some(flast'.arg))
              product_id == data.product_id[1]
              result == generate_demand_forecast(product_id,
                          Series(historical_data, product_id), flast'.arg, now)
          IN /\ ForecastFor(forecast_data', product_id) = { NewForecast(data, result, now) }
             /\ \A q \in Products \ {product_id} :
                  ForecastFor(forecast_data', q) = ForecastFor(forecast_data, q)
     ELSE \A q \in Products :
            { AsGenerated(f) : f \in ForecastFor(forecast_data', q) }
              = { AsGenerated(f) : f \in ForecastFor(forecast_data, q) }

C14_OneLiveForecast == []C14_OnePerProduct /\ [][C14_LatestStep]_vars

\* A product's forecast has been replaced: two forecasts were announced for it,
\* with different horizons, and the store holds one forecast, the second.
C14_Witness ==
  /\ Len(forecast_events) = 2
  /\ forecast_events[1].product_id = forecast_events[2].product_id
  /\ forecast_events[1].forecast_period_days # forecast_events[2].forecast_period_days
  /\ Len(forecast_data) = 1
  /\ forecast_data[1].forecast_period_days = forecast_events[2].forecast_period_days
  /\ forecast_data[1].predicted_demand = forecast_events[2].predicted_demand

\* The number of hundredths h is the fraction n / m rounded to 2 decimals:
\* it is within half a hundredth of it.
IsRounded(h, n, m) == 2 * Abs(h * m - 100 * n) <= m

\* C15: a successful ReconcileForecast on a forecast with predicted total p
\* and actual demand a stores error = |p - a|, percentage_error =
\* error / max(a, 1) * 100 and accuracy = max(0, 100 - percentage_error), the
\* last two to 2 decimals, returns the values it stores, and the stored
\* accuracy lies in [0, 100].
C15_MetricsStep ==
  (FServed("update_accuracy") /\ flast'.code = 200) =>
    LET product_id == flast'.product_id[1]
        a == flast'.arg
        m == IF a >= 1 THEN a ELSE 1
        r == update_forecast_accuracy(forecast_data, product_id,
                                      AccuracyReq(Some(a), Some(0)), now)
    IN \A f \in ForecastFor(forecast_data, product_id) :
         \A g \in ForecastFor(forecast_data', product_id) :
           LET e == Abs(f.predicted_demand - 100 * a) IN
           /\ g.actual_demand = Some(a)
           /\ g.forecast_error = Some(e)
           /\ g.percentage_error # None
           /\ IsRounded(g.percentage_error[1], e, m)
           /\ IsRounded(g.accuracy_score, IF 100 * m >= e THEN 100 * m - e ELSE 0, m)
           /\ g.accuracy_score >= 0 /\ g.accuracy_score <= 100 * 100
           /\ r.metrics.forecast_error = e
           /\ r.metrics.percentage_error = g.percentage_error[1]
           /\ r.metrics.accuracy_score = g.accuracy_score
           /\ r.metrics.predicted_demand = f.predicted_demand
           /\ r.metrics.actual_demand = a

C15_Metrics == [][C15_MetricsStep]_vars

\* A forecast with predicted total 100.00 has been reconciled with actual
\* demand 90: percentage_error 11.11, accuracy 88.89.
C15_Witness ==
  /\ flast.op = "update_accuracy" /\ flast.code = 200
  /\ \E f \in ForecastFor(forecast_data, flast.product_id[1]) :
       /\ f.predicted_demand = 10000
       /\ f.actual_demand = Some(90)
       /\ f.forecast_error = Some(1000)
       /\ f.percentage_error = Some(1111)
       /\ f.accuracy_score = 8889

\* C16: a ReconcileForecast call for a product without a stored forecast
\* answers ForecastNotFound (404) and changes nothing; for a product with a
\* forecast it changes at most the actual-demand, error and accuracy fields of
\* that forecast: everything the forecast was generated with, the forecasts
\* of the other products, the series and the events stay as they were.
C16_ReconcileFrameStep ==
  FServed("update_accuracy") =>
    LET product_id == flast'.product_id[1] IN
    /\ historical_data' = historical_data
    /\ forecast_events' = forecast_events
    /\ Len(forecast_data') = Len(forecast_data)
    /\ IF ForecastFor(forecast_data, product_id) = {}
       THEN flast'.code = 404 /\ forecast_data' = forecast_data
       ELSE /\ flast'.code # 404
            /\ \A i \in DOMAIN forecast_data :
                 IF forecast_data[i].product_id = product_id
                 THEN AsGenerated(forecast_data'[i]) = AsGenerated(forecast_data[i])
                 ELSE forecast_data'[i] = forecast_data[i]
            /\ flast'.code # 200 => forecast_data' = forecast_data

C16_ReconcileFrame == [][C16_ReconcileFrameStep]_vars

\* Two products have a forecast; one has been reconciled and the other is as
\* it was generated.
C16_Witness ==
  /\ flast.op = "update_accuracy" /\ flast.code = 200
  /\ Len(forecast_data) = 2
  /\ \E i, j \in DOMAIN forecast_data :
       /\ forecast_data[i].product_id = flast.product_id[1]
       /\ forecast_data[i].actual_demand = Some(flast.arg)
       /\ forecast_data[j].product_id # flast.product_id[1]
       /\ forecast_data[j] = AsGenerated(forecast_data[j])

\* The positions of the events built for the order object obj.
EventsOf(evs, obj) == { k \in DOMAIN evs : evs[k].obj = obj }

\* C17: every order-generated event carries status sent_to_supplier, no order
\* has two events, and an order in the store has an event exactly when it is
\* sent_to_supplier (so none while pending_approval, approved or rejected).
C17_EventPerSentOrder ==
  /\ \A k \in DOMAIN events :
       events[k].trigger = "reorder_generated" /\ events[k].status = "sent_to_supplier"
  /\ \A j, k \in DOMAIN events : events[j].obj = events[k].obj => j = k
  /\ \A o \in OrderSet(pending_orders) :
       Cardinality(EventsOf(events, o.obj)) = IF o.status = "sent_to_supplier" THEN 1 ELSE 0

\* C17: events are only appended, and an event is emitted in the very step in
\* which its order becomes sent_to_supplier: at its creation when no approval
\* is required, in the approve call otherwise.
C17_EmittedAtSendStep ==
  /\ Len(events') >= Len(events)
  /\ SubSeq(events', 1, Len(events)) = events
  /\ \A o \in OrderSet(pending_orders') :
       LET before == { q \in OrderSet(pending_orders) : q.obj = o.obj }
           sentNow == /\ o.status = "sent_to_supplier"
                      /\ \A q \in before : q.status # "sent_to_supplier"
           emittedNow == \E k \in EventsOf(events', o.obj) : k > Len(events)
       IN /\ sentNow <=> emittedNow
          /\ sentNow => IF before = {}
                        THEN ~Served("approve")
                        ELSE Served("approve") /\ last'.key = o.order_id

C17_EventOncePerSentOrder == []C17_EventPerSentOrder /\ [][C17_EmittedAtSendStep]_vars

\* The store holds an order that was sent and announced at its creation, an
\* order that was sent and announced when it was approved, and the two events.
C17_Witness ==
  /\ Len(events) = 2
  /\ \E a, b \in OrderSet(pending_orders) :
       /\ a.status = "sent_to_supplier" /\ a.approved_by = None
       /\ b.status = "sent_to_supplier" /\ b.approved_by # None
       /\ EventsOf(events, a.obj) # {} /\ EventsOf(events, b.obj) # {}

\* C19: after a successful append to a product's series the series is sorted
\* ascending by date, holds only records dated within the last 365 days, and
\* holds one record per calendar day: the record just appended is the only
\* one for its date.
C19_SeriesStep ==
  (FServed("add_historical") /\ flast'.code = 200) =>
    LET s == Series(historical_data', flast'.product_id[1]) IN
    /\ \A j, k \in DOMAIN s : j < k => s[j].date <= s[k].date
    /\ \A k \in DOMAIN s : s[k].date > Today(now) - 365 /\ s[k].date <= Today(now)
    /\ \E k \in DOMAIN s : s[k].date = flast'.arg /\ s[k].added_date = isoformat(now)
    /\ \A j, k \in DOMAIN s : s[j].date = s[k].date => j = k

C19_SeriesInvariant == [][C19_SeriesStep]_vars

\* What the claim compares of a forecast: predicted total, per-day values,
\* confidence, trend direction and seasonal factor.
Outcome(r) ==
  [predicted_demand |-> r.predicted_demand,
   daily |-> [k \in DOMAIN r.daily_forecast |-> r.daily_forecast[k].predicted_demand],
   confidence_level |-> r.confidence_level,
   trend_direction |-> r.trend_direction,
   seasonal_factor |-> r.seasonal_factor]

StoredOutcome(f) ==
  [predicted_demand |-> f.predicted_demand,
   daily |-> [k \in DOMAIN f.forecast_breakdown |-> f.forecast_breakdown[k].predicted_demand],
   confidence_level |-> f.confidence_level,
   trend_direction |-> f.trend_direction,
   seasonal_factor |-> f.seasonal_factor]

\* Series that agree with h on their 30 most recent records: h cut to them,
\* and those 30 records with an older record in front.
SameWindow(h) ==
  LET w == LastN(h, 30)
      older == { Rec(w[1].date - 1, d) : d \in {0, 19} }
  IN {w} \cup (IF Len(h) >= 30 THEN { <<o>> \o w : o \in older } ELSE {})

\* C20: the forecast a successful GenerateForecast stores is the forecast of
\* every series with the same 30 most recent records, at every tick of the
\* same reference day; and a successful call that follows a successful one for
\* the same product and horizon on the same day stores the same forecast again.
C20_RepeatStep ==
  (FServed("create_forecast") /\ flast'.code = 201) =>
    \A g \in ForecastFor(forecast_data', flast'.product_id[1]) :
      /\ \A v \in SameWindow(Series(historical_data, g.product_id)), t \in 0..MaxTime :
           Today(t) = Today(now) =>
             StoredOutcome(g)
               = Outcome(generate_demand_forecast(g.product_id, v, flast'.arg, t))
      /\ ( /\ flast.op = "create_forecast" /\ flast.code = 201
           /\ flast.product_id = flast'.product_id /\ flast.arg = flast'.arg )
         => \A f \in ForecastFor(forecast_data, g.product_id) :
              Today(fromisoformat(f.created_date)) = Today(now)
                => StoredOutcome(g) = StoredOutcome(f)

C20_Deterministic == [][C20_RepeatStep]_vars

\* A product got a forecast from its 30 records, then a record older than all
\* of them was appended, then it got a forecast from the 31 records: the two
\* forecasts announced are the same.
C20_Witness ==
  /\ flast.op = "create_forecast" /\ flast.code = 201
  /\ Len(Series(historical_data, flast.product_id[1])) = 31
  /\ Len(forecast_events) = 2
  /\ forecast_events[1].product_id = forecast_events[2].product_id
  /\ forecast_events[1].forecast_period_days = forecast_events[2].forecast_period_days
  /\ forecast_events[1].predicted_demand = forecast_events[2].predicted_demand
  /\ forecast_events[1].confidence_level = forecast_events[2].confidence_level

\* ---- C18
\* The orders a request has created from the rule with identifier rid.
FiredBy(c, rid) ==
  { k \in 1..Len(frame[c].triggered) : frame[c].triggered[k].rule_id = rid }

RECURSIVE SumFired(_, _)
SumFired(cs, rid) ==
  IF cs = {} THEN 0
  ELSE LET c == CHOOSE x \in cs : TRUE
       IN Cardinality(FiredBy(c, rid)) + SumFired(cs \ {c}, rid)

\* The number of orders created from the rule by all the requests.
CreatedFrom(rid) == SumFired(Requests, rid)

AllDone == \A c \in Requests : pc[c] = "done"

Overlapped == \E c \in Requests : frame[c].overlapped

\* Two different requests created an order each from the time_based rule, less
\* than the rule's cadence apart.
DoubleFire(rule) ==
  /\ rule.trigger_type = "time_based"
  /\ \E c, d \in Requests :
       /\ c # d
       /\ \E j \in FiredBy(c, rule.rule_id), k \in FiredBy(d, rule.rule_id) :
            LET a == fromisoformat(frame[c].triggered[j].created_date)
                b == fromisoformat(frame[d].triggered[k].created_date)
            IN a <= b /\ DaysBetween(b, a) < rule.trigger_value.n

\* C18: over rules that have not fired before, the trigger count of a rule is
\* never higher than the number of orders created from it and a request fires
\* a rule at most once; check-triggers requests that did not overlap leave the
\* count equal to the number of orders and never two orders of a time_based
\* rule inside one cadence window; requests that overlapped may leave both
\* (C18_Witness), and with two requests at most one increment is lost.
C18_RaceOnlyWhenOverlapping ==
  \A i \in 1..Len(reorder_rules) :
    LET rule == reorder_rules[i] IN
    /\ rule.total_triggers <= CreatedFrom(rule.rule_id)
    /\ \A c \in Requests : Cardinality(FiredBy(c, rule.rule_id)) <= 1
    /\ AllDone =>
         CreatedFrom(rule.rule_id) - rule.total_triggers <= Cardinality(Requests) - 1
    /\ ~Overlapped =>
         /\ ~DoubleFire(rule)
         /\ AllDone => rule.total_triggers = CreatedFrom(rule.rule_id)

\* Two overlapping requests have finished: both fired the time_based rule
\* inside one cadence window, and the rule's count is 1 for its 2 orders.
C18_Witness ==
  /\ AllDone /\ Overlapped
  /\ \E i \in 1..Len(reorder_rules) :
       /\ DoubleFire(reorder_rules[i])
       /\ CreatedFrom(reorder_rules[i].rule_id) = 2
       /\ reorder_rules[i].total_triggers = 1

\* ---- C21
\* The demands of the last 14 records of a series.
LastWindow(h) == Demands(LastN(h, PatternRecords))

\* Every demand of d is higher than the one before it, by lo at least and by
\* hi at most.
RisesBy(d, lo, hi) ==
  \A k \in 1..(Len(d) - 1) :
    LET step == FracSub(d[k + 1], d[k]) IN
    /\ step.n > 0 /\ ~FracLess(step, lo) /\ ~FracLess(hi, step)

Reversed(d) == [k \in DOMAIN d |-> d[Len(d) + 1 - k]]

StrictlyRising(d) == \A k \in 1..(Len(d) - 1) : FracLess(d[k], d[k + 1])
StrictlyFalling(d) == StrictlyRising(Reversed(d))
AllEqual(d) == \A j, k \in DOMAIN d : d[j] = d[k]

\* A step above every step of the series drawn.
AnyStep == Whole(1000)

\* 7 * (mean of the last 7 demands - mean of the 7 before them) of a window
\* of 14 demands.
HalvesApart(w) == FracSub(FracSum(SubSeq(w, 8, 14)), FracSum(SubSeq(w, 1, 7)))

\* The forecast a successful GenerateForecast step has stored, and the series
\* it was computed from.
Generated == ForecastFor(forecast_data', flast'.product_id[1])
GeneratedFrom == Series(historical_data, flast'.product_id[1])

\* C21 as stated: with 14 records or more the direction is increasing whenever
\* the last 14 demands are strictly increasing, decreasing whenever they are
\* strictly decreasing, stable whenever they are all equal; with 7 to 13
\* records it is stable.
C21_DirectionByShapeStep ==
  (FServed("create_forecast") /\ flast'.code = 201) =>
    \A g \in Generated :
      LET h == GeneratedFrom
          w == LastWindow(h)
      IN /\ Len(h) >= 14 =>
              /\ StrictlyRising(w) => g.trend_direction = "increasing"
              /\ StrictlyFalling(w) => g.trend_direction = "decreasing"
              /\ AllEqual(w) => g.trend_direction = "stable"
         /\ Len(h) < 14 => g.trend_direction = "stable"

C21_DirectionByShape == [][C21_DirectionByShapeStep]_vars

\* The trend as the code holds it: the double computed from the demands of the
\* last 30 records.
ComputedTrend(h) == F64Trend(Demands(LastN(h, WindowRecords)))

\* 7 * 0.7001 and 7 * 0.6999: the two means are clearly more, and clearly less,
\* than 0.7 apart.
ClearlyApart == Frac(49007, 10000)
ClearlyClose == Frac(48993, 10000)

\* C21, amended: with 14 records or more the direction is increasing exactly
\* when the trend the code computes in floating point is above 0.1, decreasing
\* exactly when it is below -0.1, and stable otherwise. For the demands drawn
\* here the direction is therefore increasing when the mean of the last 7
\* demands exceeds the mean of the 7 before them by more than 0.7001,
\* decreasing when it is lower by more than 0.7001, and stable when the two are
\* less than 0.6999 apart; in between the floating-point value alone decides.
\* So a window whose demands rise (fall) by 1 or more from each day to the
\* next is increasing (decreasing), a window of equal demands is stable, and a
\* window that rises or falls by 0.09 a day or less is stable as well. With 7
\* to 13 records the direction is stable.
C21_DirectionByTrendStep ==
  (FServed("create_forecast") /\ flast'.code = 201) =>
    \A g \in Generated :
      LET h == GeneratedFrom
          w == LastWindow(h)
          apart == HalvesApart(w)
      IN /\ Len(h) >= 14 =>
              \E f \in {ComputedTrend(h)} :
              /\ g.trend_direction = "increasing" <=> F64Less(F64Tenth, f)
              /\ g.trend_direction = "decreasing" <=> F64Less(f, F64Neg(F64Tenth))
              /\ g.trend_direction \in {"increasing", "decreasing", "stable"}
              /\ FracLess(ClearlyApart, apart) => g.trend_direction = "increasing"
              /\ FracLess(apart, Frac(-49007, 10000)) => g.trend_direction = "decreasing"
              /\ (FracLess(apart, ClearlyClose) /\ FracLess(Frac(-48993, 10000), apart))
                   => g.trend_direction = "stable"
              /\ RisesBy(w, Whole(1), AnyStep) => g.trend_direction = "increasing"
              /\ RisesBy(Reversed(w), Whole(1), AnyStep) => g.trend_direction = "decreasing"
              /\ AllEqual(w) => g.trend_direction = "stable"
              /\ RisesBy(w, Frac(0, 1), Frac(9, 100)) => g.trend_direction = "stable"
              /\ RisesBy(Reversed(w), Frac(0, 1), Frac(9, 100)) => g.trend_direction = "stable"
         /\ Len(h) < 14 => g.trend_direction = "stable"

C21_DirectionByTrend == [][C21_DirectionByTrendStep]_vars

\* A forecast was generated from a series whose last 14 demands rise by 1/16
\* a day: its direction is stable.
C21_Witness ==
  /\ flast.op = "create_forecast" /\ flast.code = 201
  /\ LET h == Series(historical_data, flast.product_id[1]) IN
     /\ Len(h) >= 14
     /\ StrictlyRising(LastWindow(h))
     /\ \E g \in ForecastFor(forecast_data, flast.product_id[1]) :
          g.trend_direction = "stable"

\* ---- C22
\* The series lengths one forecast is compared with: 7, 30 and one record less.
ShorterThan(n) == { m \in {7, 30, n - 1} : 7 <= m /\ m <= n }

\* C22: the confidence of a forecast generated from a series of n records is
\* min(95, 60 + 2 * min(n, 30)); it is at most 95, it is not below the
\* confidence of the forecast of the last 7, the last 30 or the last n - 1
\* records of the series, and, the series only growing, not below the
\* confidence of the forecast it replaces.
C22_ConfidenceStep ==
  (FServed("create_forecast") /\ flast'.code = 201) =>
    \A g \in Generated :
      LET h == GeneratedFrom
          n == Len(h)
      IN /\ n >= 7
         /\ g.confidence_level = Min(95, 60 + 2 * Min(n, 30))
         /\ g.confidence_level <= 95
         /\ \A m \in ShorterThan(n) :
              generate_demand_forecast(g.product_id, LastN(h, m), flast'.arg, now).confidence_level
                <= g.confidence_level
         /\ \A f \in ForecastFor(forecast_data, g.product_id) :
              f.confidence_level <= g.confidence_level

C22_Confidence == [][C22_ConfidenceStep]_vars

\* A product got a forecast from 17 records with confidence 94, then one more
\* record, then a forecast from 18 records with confidence 95 (60 + 36 capped).
C22_Witness ==
  /\ flast.op = "create_forecast" /\ flast.code = 201
  /\ Len(Series(historical_data, flast.product_id[1])) = 18
  /\ Len(forecast_events) = 2
  /\ forecast_events[1].confidence_level = 94
  /\ forecast_events[2].confidence_level = 95

\* ---- C23
\* The per-day values of a stored forecast.
BreakdownValues(f) ==
  [k \in DOMAIN f.forecast_breakdown |-> f.forecast_breakdown[k].predicted_demand]

\* C23 as stated: every forecast in the forecast store, reconciled or not,
\* has a breakdown of exactly forecast_period_days entries, dated on the
\* consecutive days from the day it was created, whose values add up to its
\* predicted total.
C23_BreakdownSums ==
  \A i \in DOMAIN forecast_data :
    LET f == forecast_data[i] IN
    /\ Len(f.forecast_breakdown) = f.forecast_period_days
    /\ \A k \in DOMAIN f.forecast_breakdown :
         f.forecast_breakdown[k].date = Today(fromisoformat(f.created_date)) + k - 1
    /\ SumSeq(BreakdownValues(f)) = f.predicted_demand

\* C23, amended: every forecast in the forecast store, reconciled or not, has
\* a breakdown of forecast_period_days entries when that number is positive
\* and of no entry when it is zero or negative (such a forecast is stored with
\* the number as it came and the predicted total 0); the entries are dated on
\* the consecutive days from the day it was created and their values add up
\* to its predicted total.
C23_BreakdownOverHorizon ==
  \A i \in DOMAIN forecast_data :
    LET f == forecast_data[i] IN
    /\ Len(f.forecast_breakdown) = Max(0, f.forecast_period_days)
    /\ f.forecast_period_days <= 0 => f.predicted_demand = 0
    /\ \A k \in DOMAIN f.forecast_breakdown :
         f.forecast_breakdown[k].date = Today(fromisoformat(f.created_date)) + k - 1
    /\ SumSeq(BreakdownValues(f)) = f.predicted_demand

\* The store holds a reconciled forecast over -1 days, which has no entry and
\* the predicted total 0, next to a forecast over 3 days whose values are not
\* all the same.
C23_Witness ==
  \E i, j \in DOMAIN forecast_data :
    LET f == forecast_data[i]
        g == forecast_data[j]
    IN /\ f.accuracy_updated # None
       /\ f.forecast_period_days = -1
       /\ f.forecast_breakdown = <<>>
       /\ g.forecast_period_days = 3
       /\ Len(g.forecast_breakdown) = 3
       /\ \E k, l \in 1..3 : BreakdownValues(g)[k] # BreakdownValues(g)[l]
       /\ g.predicted_demand > 0

\* ---- C24
\* C24: a step that creates orders (CreateOrder, a manual trigger, or an
\* EvaluateTriggers call in which one or more rules fire) makes the order store
\* longer by one entry per order created, and every order that was in the store
\* is still in it.
C24_FreshIdStep ==
  nextObj' > nextObj =>
    /\ Len(pending_orders') = Len(pending_orders) + (nextObj' - nextObj)
    /\ \A p \in OrderSet(pending_orders) :
         \E q \in OrderSet(pending_orders') : q.obj = p.obj

C24_UniqueOrderIds == [][C24_FreshIdStep]_vars

\* ---- C25
\* The accuracy scores of the reconciled forecasts of the store, in store order.
ReconciledScores(forecasts) ==
  Scores(SelectSeq(forecasts, LAMBDA f : f.accuracy_updated # None))

\* improving / declining / stable for two means of scores, with the dead band
\* of 5 points.
Compared(recent, older) ==
  IF FracLess(FracAdd(older, Whole(500)), recent) THEN "improving"
  ELSE IF FracLess(recent, FracSub(older, Whole(500))) THEN "declining"
  ELSE "stable"

\* The summary of the market trends, another part of the same response, can
\* be made and written.
SummaryWritten(trends) ==
  \E s \in {TrendSummary(trends)} : ~s.raise /\ Sortable(s.summary)

\* C25: a GET /analytics call over market trends whose summary can be written
\* succeeds and leaves the forecast store as it is;
\* with fewer than 2 reconciled forecasts its accuracy trend is
\* insufficient_data, with 2 or more it is improving, declining or stable, and
\* with 6 or more (so that there are forecasts before the most recent 5) it is
\* the comparison of the mean of the 5 most recent with the mean of the up to 5
\* before them.
C25_TrendQueryStep ==
  FServed("analytics") /\ SummaryWritten(market_trends) =>
    LET sc == ReconciledScores(forecast_data)
        k == Len(sc)
    IN /\ flast'.code = 200
       /\ forecast_data' = forecast_data
       /\ k < 2 => flast'.response.trend = "insufficient_data"
       /\ k >= 2 => flast'.response.trend \in {"improving", "declining", "stable"}
       /\ k >= 6 =>
            flast'.response.trend =
              Compared(Frac(SumSeq(LastN(sc, 5)), 5),
                       Frac(SumSeq(Slice(sc, 10, 5)), Len(Slice(sc, 10, 5))))

C25_TrendQuery == [][C25_TrendQueryStep]_vars

\* ---- C26
\* The rule with every field the Trigger Evaluator writes set back to what it
\* was in before.
Unstamped(after, before) ==
  [after EXCEPT !.last_triggered = before.last_triggered,
                !.total_triggers = before.total_triggers]

C26_RuleFramePred ==
  \A data \in Snapshots, adv \in Schedules :
    LET r == check_reorder_triggers(Stores, data, now, adv, epochMonth) IN
    /\ Len(r.rules) = Len(reorder_rules)
    /\ \A k \in DOMAIN r.triggered :
         \E i \in DOMAIN reorder_rules :
           /\ reorder_rules[i].rule_id = r.triggered[k].rule_id
           /\ reorder_rules[i].status = "active"
    /\ \A i \in DOMAIN reorder_rules :
         LET rule == reorder_rules[i]
             after == r.rules[i]
             fired == ResultPositions(r, rule.rule_id) # {}
         IN /\ Unstamped(after, rule) = rule
            /\ ~fired => after = rule
            /\ rule.status # "active" => ~fired

\* C26: an EvaluateTriggers call, failed or not, returns orders of active rules
\* only; it keeps the registry's rules in place, changes no field of a rule
\* other than last_triggered and total_triggers, and changes nothing at all in
\* a rule that is inactive or did not fire.
C26_RuleFrame == []C26_RuleFramePred

\* A check-triggers call has been served over a registry holding an inactive
\* time_based rule that was never triggered (an active one would have fired):
\* it is still untouched.
C26_Witness ==
  /\ last.op = "check_triggers" /\ last.code = 200
  /\ \E i \in DOMAIN reorder_rules :
       /\ reorder_rules[i].trigger_type = "time_based"
       /\ reorder_rules[i].status = "inactive"
       /\ reorder_rules[i].last_triggered = None
       /\ reorder_rules[i].total_triggers = 0

\* ---- C27
\* No demand of the series is negative.
NonNegative(h) == \A k \in DOMAIN h : h[k].demand.n >= 0

\* C27: the seasonal factor of a forecast generated from a series of
\* non-negative demands is above 0, and it is 1.0 when the series has fewer
\* than 14 records or none of its last 14 records falls on the weekday of the
\* day of the call.
C27_SeasonalFactorStep ==
  (FServed("create_forecast") /\ flast'.code = 201) =>
    \A g \in Generated :
      LET h == GeneratedFrom IN
      NonNegative(h) =>
        /\ g.seasonal_factor > 0
        /\ (Len(h) < PatternRecords \/ SameWeekday(h, Weekday(Today(now))) = <<>>)
             => g.seasonal_factor = 100

C27_SeasonalFactorPositive == [][C27_SeasonalFactorStep]_vars

\* ---- C28
\* The status values of an order between two calls.
RestingStatuses == {"pending_approval", "sent_to_supplier", "rejected"}

\* C28: between two calls no order of the order store has status approved:
\* every order is pending_approval, sent_to_supplier or rejected.
C28_NoApprovedAtRest ==
  \A o \in OrderSet(pending_orders) :
    o.status # "approved" /\ o.status \in RestingStatuses

\* ---- C29
\* The number of orders of the order store that come from this rule.
OrdersOf(orders, rule_id) ==
  Cardinality({ k \in DOMAIN orders : orders[k].rule_id = rule_id })

\* The stores a check-triggers call with result r leaves behind.
StoresAfter(r) ==
  [rules |-> r.rules, orders |-> r.orders, events |-> r.events, nextObj |-> r.nextObj]

\* The clock moves by gap at most between the two calls.
Gaps == {0, 1}

\* C29: of two successful EvaluateTriggers calls served one after the other
\* with the same snapshot, both fire every active threshold or demand_forecast
\* rule whose condition holds on the snapshot, and each of the two calls leaves
\* the order store with one more order of that rule.
C29_RepeatFires ==
  \A data \in Snapshots, adv1 \in Schedules, gap \in Gaps, adv2 \in Schedules :
    LET r1 == check_reorder_triggers(Stores, data, now, adv1, epochMonth)
        t1 == now + SumSeq(adv1) + gap
        r2 == check_reorder_triggers(StoresAfter(r1), data, t1, adv2, epochMonth)
    IN ( /\ data.kind = "json"
         /\ t1 + SumSeq(adv2) <= MaxTime
         /\ r1.code = 200 /\ r2.code = 200 ) =>
       \A i \in DOMAIN reorder_rules :
         LET rule == reorder_rules[i] IN
         ( /\ rule.status = "active"
           /\ rule.trigger_type \in {"threshold", "demand_forecast"}
           /\ ShouldTrigger(rule, data.inventory_data, now).fire ) =>
           /\ r1.rules[i].total_triggers = rule.total_triggers + 1
           /\ r2.rules[i].total_triggers = rule.total_triggers + 2
           /\ OrdersOf(r1.orders, rule.rule_id) = OrdersOf(pending_orders, rule.rule_id) + 1
           /\ OrdersOf(r2.orders, rule.rule_id) = OrdersOf(pending_orders, rule.rule_id) + 2

\* ---- C30
C30_MissingEntryPred ==
  \A data \in Snapshots, adv \in Schedules :
    LET r == check_reorder_triggers(Stores, data, now, adv, epochMonth) IN
    (data.kind = "json" /\ r.code = 200) =>
      \A i \in DOMAIN reorder_rules :
        LET rule == reorder_rules[i] IN
        ( /\ rule.status = "active" /\ rule.trigger_type = "threshold"
          /\ data.inventory_data[rule.product_id] = None )
        => /\ rule.trigger_value.num
           /\ FiredIn(r, i) <=> 0 <= rule.trigger_value.n
           /\ FiredIn(r, i) =>
                \E o \in TriggeredFor(r, rule.rule_id) :
                  /\ o.trigger_reason.nums = <<0, rule.trigger_value.n>>
                  /\ \E q \in OrderSet(r.orders) : q.order_id = o.order_id

\* C30: in a successful EvaluateTriggers call an active threshold rule whose
\* product has no entry in the snapshot is evaluated with current_stock 0: it
\* fires exactly when 0 <= trigger_value, and its order, made for stock 0, is
\* returned by the call and stored under its order id.
C30_MissingEntryIsZero == []C30_MissingEntryPred

\* A threshold rule registered without trigger_value (so with 0) has fired on
\* a snapshot without an entry for its product: stock 0, threshold 0.
C30_Witness ==
  /\ last.op = "check_triggers" /\ last.code = 200
  /\ \E i \in DOMAIN reorder_rules :
       /\ reorder_rules[i].trigger_type = "threshold"
       /\ reorder_rules[i].trigger_value = NUM(DefaultTriggerValue)
       /\ reorder_rules[i].total_triggers >= 1
       /\ \E o \in OrderSet(pending_orders) :
            /\ o.rule_id = reorder_rules[i].rule_id
            /\ o.trigger_reason.nums = <<0, 0>>

====
